---- MODULE Spec2Model ----
(***************************************************************************)
(* Methane monitoring: the detection-and-notification loop of              *)
(* autonomous/crew_box.py with its deduplication ledger and its shutdown,  *)
(* the notifier of autonomous/email_alert.py, the reasoner of              *)
(* autonomous/reasoning_agent.py, the insert and the fetch of             *)
(* data_layer/weaviate_client.py, the ingestion endpoint of                *)
(* autonomous/api_server.py and the launch of run/auto_cycle.py.           *)
(*                                                                         *)
(* Time is in whole seconds, the store's clock in milliseconds.  Python    *)
(* values that may be a number, a string or absent are tagged records      *)
(* (Num, Str, None).                                                       *)
(***************************************************************************)
EXTENDS Integers, Sequences, FiniteSets, TLC

\* ------------------------------------------------------------------ bounds
MaxTime == 3          \* the clock stops advancing here
MaxCycles == 2        \* monitoring cycles per behaviour
MaxReadings == 2      \* readings returned by one fetch
SmallCooldown == 2    \* a short ALERT_COOLDOWN_SECONDS set through the environment
MaxNow == 301         \* clock range of the ledger-function specification
MaxBatch == 2         \* batch length of the detector specification
MaxTokens == 5        \* length of the reasoner's response text, in tokens
MaxStored == 2        \* objects the store takes, and the largest limit of a fetch
MaxMs == 1            \* the millisecond clock of the store specification stops here

\* ------------------------------------------------------- program constants
DefaultCooldown == 300            \* default of ALERT_COOLDOWN_SECONDS
ABSOLUTE_EMERGENCY_PPM == 5000    \* default of ABSOLUTE_EMERGENCY_PPM
MAX_RETRIES == 4                  \* default of EMAIL_MAX_RETRIES
RETRY_DELAY_SECONDS == 2          \* default of EMAIL_RETRY_DELAY

\* --------------------------------------------------------- Python values
None == [t |-> "none", n |-> 0, s |-> ""]
Num(n) == [t |-> "num", n |-> n, s |-> ""]
Str(s) == [t |-> "str", n |-> 0, s |-> s]

\* truth value of a Python object, as the `or` chain tests it
Truthy(x) == \/ x.t = "str" /\ x.s # ""
             \/ x.t = "num" /\ x.n # 0

\* strings float() accepts, with the number they denote
NumericStrings == {"9000", "4999"}
ParseFloat(s) == IF s = "9000" THEN 9000 ELSE 4999

\* float(x) returns a number (otherwise it raises)
FloatAccepts(x) == \/ x.t = "num"
                   \/ x.t = "str" /\ x.s \in NumericStrings

Reading(tid, alt, oid, ppm) ==
    [trace_id |-> tid, traceid |-> alt, id |-> oid, methane_ppm |-> ppm]

\* ------------------------------------------------------------- detection
_safe_float(x, default) ==
    IF FloatAccepts(x)
    THEN (IF x.t = "num" THEN x.n ELSE ParseFloat(x.s))
    ELSE default

\* the comparison made for one reading
AtLeast(ppm, absolute_threshold) == ppm >= absolute_threshold

\* the detector with the boundary excluded
detect_strict(readings, absolute_threshold) ==
    LET F[k \in 0..Len(readings)] ==
            IF k = 0 THEN <<>>
            ELSE IF _safe_float(readings[k].methane_ppm, 0) > absolute_threshold
                 THEN Append(F[k - 1], [reason |-> absolute_threshold,
                                        reading |-> readings[k]])
                 ELSE F[k - 1]
    IN F[Len(readings)]

\* for r in readings: if _safe_float(r.get("methane_ppm")) >= absolute_threshold
detect_anomalies_from_readings(readings, absolute_threshold) ==
    LET F[k \in 0..Len(readings)] ==
            IF k = 0 THEN <<>>
            ELSE IF AtLeast(_safe_float(readings[k].methane_ppm, 0), absolute_threshold)
                 THEN Append(F[k - 1], [reason |-> absolute_threshold,
                                        reading |-> readings[k]])
                 ELSE F[k - 1]
    IN F[Len(readings)]

\* ---------------------------------------------------------------- ledger
\* trace_id = r.get("trace_id") or r.get("traceid") or r.get("id") or ""
TraceIdOf(r) ==
    IF Truthy(r.trace_id) THEN r.trace_id.s
    ELSE IF Truthy(r.traceid) THEN r.traceid.s
    ELSE IF Truthy(r.id) THEN r.id.s
    ELSE ""

\* the policy with `if not last` in place of `if last is None`
should_alert_falsy_last(ledger, cooldown, clock, trace_id) ==
    IF trace_id = "" THEN TRUE
    ELSE IF trace_id \notin DOMAIN ledger THEN TRUE
    ELSE IF ledger[trace_id] = 0 THEN TRUE
    ELSE (clock - ledger[trace_id]) >= cooldown

\* the policy without the ledger
should_alert_always(ledger, cooldown, clock, trace_id) == TRUE

\* the policy with an empty trace id never alerting
should_alert_empty_silent(ledger, cooldown, clock, trace_id) ==
    IF trace_id = "" THEN FALSE
    ELSE IF trace_id \notin DOMAIN ledger THEN TRUE
    ELSE (clock - ledger[trace_id]) >= cooldown

\* _should_alert_for_trace(trace_id) with the globals it reads as arguments
_should_alert_for_trace(ledger, cooldown, clock, trace_id) ==
    IF trace_id = "" THEN TRUE
    ELSE IF trace_id \notin DOMAIN ledger THEN TRUE
    ELSE (clock - ledger[trace_id]) >= cooldown

\* _mark_alert_sent dropping the entries older than the one it writes
mark_alert_sent_pruning(ledger, clock, trace_id) ==
    IF trace_id = "" THEN ledger
    ELSE [k \in {j \in DOMAIN ledger : ledger[j] >= clock} \cup {trace_id} |->
            IF k = trace_id THEN clock ELSE ledger[k]]

\* the ledger after _mark_alert_sent(trace_id) at time clock
_mark_alert_sent(ledger, clock, trace_id) ==
    IF trace_id = "" THEN ledger
    ELSE [k \in DOMAIN ledger \cup {trace_id} |->
            IF k = trace_id THEN clock ELSE ledger[k]]

\* f"anon-{int(time.time()*1000)}"
AnonKey(clock) == "anon-" \o ToString(clock * 1000)

\* ------------------------------------------------------------------ state
VARIABLES
    ALERT_COOLDOWN_SECONDS,   \* module constant read from the environment
    CHECK_INTERVAL_SECONDS,   \* module constant read from the environment
    send_to,                  \* argument the loop passes to every cycle
    ALERT_TO,                 \* os.getenv("ALERT_TO") or os.getenv("GMAIL_USER")
    now,                      \* time.time()
    _last_alert_ts,           \* the ledger: trace id -> time of the last alert
    pc,                       \* position of the loop
    cycle,                    \* number of the current cycle
    readings,                 \* local: the fetched readings
    anomalies,                \* local: the detector's result
    new_anomalies,            \* local: <<trace id, reading>> that passed the filter
    i,                        \* local: index of the filter loop and of the mark loop
    report_text,              \* local
    recipients,               \* local: send_to after the defaulting
    subject,                  \* local: the composed subject
    body,                     \* local: the composed body
    result,                   \* what the last finished cycle returned
    outcome,                  \* how the current cycle ended ("running" until then)
    calls,                    \* history: calls made by the current cycle
    sent_log,                 \* history: cycle, return time and trace ids of each successful send
    ledger_at_start,          \* history: the ledger when the cycle started
    retry_due,                \* history: new anomalies of the previous cycle if its send raised
    store_up,                 \* history: the store answered the fetch of this cycle
    interrupted_at,           \* history: where KeyboardInterrupt reached the loop ("" if it did not)
    absolute_threshold,       \* argument of the function specifications
    arg_trace_id,             \* argument of the function specifications
    ret,                      \* return value of the function specifications
    to_addrs,                 \* send_email_alert: the argument, then the local
    email_ALERT_TO,           \* email_alert.ALERT_TO
    GMAIL_USER,               \* email_alert: the variable is set
    GMAIL_APP_PASSWORD,       \* email_alert: the variable is set
    SENDGRID_API_KEY,         \* email_alert: the variable is set
    SENDGRID_FROM,            \* email_alert: the variable is set
    smtp465_ok,               \* send_email_alert: local
    smtp587_ok,               \* send_email_alert: local
    attempt,                  \* _try_smtp_ssl, _try_smtp_starttls: loop variable
    tried,                    \* history: probes made and attempts per channel
    delays,                   \* history: the time.sleep() arguments of the retries
    _client,                  \* weaviate_client._client: "None" or "client"
    close_log,                \* history: close() calls, and what the loop held when it ended
    api_ok,                   \* call_chatgpt_reasoner: the chat completion call returns
    raw_text,                 \* call_chatgpt_reasoner: the text of the response, in tokens
    objects,                  \* the SensorEvent objects of the store, in the order stored
    ingest_log,               \* history: per stored object, how it came in and the id reported for it
    utc_ms,                   \* datetime.now(tz=timezone.utc), in milliseconds
    auto_pc                   \* run/auto_cycle.py: position of the script

vars == <<ALERT_COOLDOWN_SECONDS, CHECK_INTERVAL_SECONDS, send_to, ALERT_TO, now,
          _last_alert_ts, pc, cycle, readings, anomalies, new_anomalies, i,
          report_text, recipients, subject, body, result, outcome, calls,
          sent_log, ledger_at_start, retry_due, store_up, interrupted_at,
          absolute_threshold, arg_trace_id, ret, to_addrs, email_ALERT_TO, GMAIL_USER,
          GMAIL_APP_PASSWORD, SENDGRID_API_KEY, SENDGRID_FROM, smtp465_ok,
          smtp587_ok, attempt, tried, delays, _client, close_log,
          api_ok, raw_text, objects, ingest_log, utc_ms, auto_pc>>

config == <<ALERT_COOLDOWN_SECONDS, CHECK_INTERVAL_SECONDS, send_to, ALERT_TO>>
locals == <<readings, anomalies, new_anomalies, i, report_text, recipients,
            subject, body>>
fnvars == <<absolute_threshold, arg_trace_id, ret>>
mailenv == <<email_ALERT_TO, GMAIL_USER, GMAIL_APP_PASSWORD, SENDGRID_API_KEY,
             SENDGRID_FROM>>
mailvars == <<to_addrs, mailenv, smtp465_ok, smtp587_ok, attempt, tried, delays>>
clientvars == <<_client, close_log>>
llmvars == <<api_ok, raw_text>>
storevars == <<objects, ingest_log, utc_ms>>
autovars == <<auto_pc>>
svcvars == <<mailvars, clientvars, llmvars, storevars, autovars, interrupted_at>>

\* ----------------------------------------------------------------- inputs
CooldownValues == {SmallCooldown, DefaultCooldown}
IntervalValues == {1}
OpsAddress == "ops@example.org"
SendToArgs == {[given |-> FALSE, addrs |-> <<>>],
               [given |-> TRUE, addrs |-> <<>>],
               [given |-> TRUE, addrs |-> <<OpsAddress>>]}
EnvRecipients == {"", OpsAddress}

\* what the store can hold
StoredReadings ==
    {Reading(Str("t1"), None, None, Num(9000)),
     Reading(Str("t2"), None, None, Num(5000)),
     Reading(Str(""), None, None, Num(9000)),
     Reading(Str("t3"), None, None, Num(4999))}

SeqsUpTo(S, n) == UNION {[1..k -> S] : k \in 0..n}
Batches == SeqsUpTo(StoredReadings, MaxReadings)

NoCalls == [reasoner |-> 0, send |-> 0, errors |-> <<>>]
NoSubject == [new_count |-> 0, threshold |-> 0]
NoBody == [report |-> "", raw |-> <<>>]
NoResult == [kind |-> "none", sent |-> FALSE, text |-> ""]
Returned(sent, text) == [kind |-> "return", sent |-> sent, text |-> text]

Range(s) == {s[k] : k \in DOMAIN s}
\* the trace ids of a sequence of <<trace id, reading>> ("" among them)
TraceIds(pairs) == {p[1] : p \in Range(pairs)}
ReadingsOf(pairs) == [k \in DOMAIN pairs |-> pairs[k][2]]

NotGiven == [given |-> FALSE, addrs |-> <<>>]
\* no probe made, no attempt on any channel, no channel has delivered
NoTries == [probes |-> 0, ssl |-> 0, starttls |-> 0, sendgrid |-> 0, sent |-> ""]

\* no close() called; the loop has not ended
NoCloses == [calls |-> 0, raised |-> FALSE, held |-> "unknown"]

\* the client is not looked at
ClientIdle ==
    /\ _client = "None"
    /\ close_log = NoCloses

\* call_chatgpt_reasoner is not running
ReasonerIdle ==
    /\ api_ok = TRUE
    /\ raw_text = <<>>
StoreIdle ==
    /\ objects = <<>>
    /\ ingest_log = <<>>
    /\ utc_ms = 0
\* run/auto_cycle.py has not been launched
AutoIdle == auto_pc = "not started"

\* send_email_alert is not running
MailIdle ==
    /\ to_addrs = NotGiven
    /\ email_ALERT_TO = ""
    /\ GMAIL_USER = FALSE
    /\ GMAIL_APP_PASSWORD = FALSE
    /\ SENDGRID_API_KEY = FALSE
    /\ SENDGRID_FROM = FALSE
    /\ smtp465_ok = FALSE
    /\ smtp587_ok = FALSE
    /\ attempt = 0
    /\ tried = NoTries
    /\ delays = <<>>

Init ==
    /\ ALERT_COOLDOWN_SECONDS = SmallCooldown
    /\ CHECK_INTERVAL_SECONDS \in IntervalValues
    /\ send_to \in SendToArgs
    /\ ALERT_TO \in EnvRecipients
    /\ send_to.given => ALERT_TO = ""    \* the environment is read only when send_to is None
    /\ now = 0
    /\ _last_alert_ts = <<>>
    /\ pc = "start"
    /\ cycle = 1
    /\ readings = <<>>
    /\ anomalies = <<>>
    /\ new_anomalies = <<>>
    /\ i = 0
    /\ report_text = ""
    /\ recipients = <<>>
    /\ subject = NoSubject
    /\ body = NoBody
    /\ result = NoResult
    /\ outcome = "running"
    /\ calls = NoCalls
    /\ sent_log = {}
    /\ ledger_at_start = <<>>
    /\ retry_due = {}
    /\ store_up = TRUE
    /\ interrupted_at = ""
    /\ absolute_threshold = ABSOLUTE_EMERGENCY_PPM
    /\ arg_trace_id = ""
    /\ ret = FALSE
    /\ MailIdle
    /\ ClientIdle
    /\ ReasonerIdle
    /\ StoreIdle
    /\ AutoIdle

\* ---------------------------------------------------------------- actions
\* The clock advances while the loop runs.  It is read by the filter and by
\* the mark, and the send log records it, so it advances in front of these;
\* the two loops make no blocking call and run within one clock value.
Tick ==
    /\ pc \in {"filter", "send", "mark"}
    /\ pc \in {"filter", "mark"} => i = 1
    /\ now < MaxTime
    /\ now' = now + 1
    /\ UNCHANGED <<svcvars, store_up, config, _last_alert_ts, pc, cycle, locals, result, outcome,
                   calls, sent_log, ledger_at_start, retry_due, fnvars>>

\* ------------------------------------------------ the fetch of readings
\* the cached client: _client_type and the attributes the fetch tests for
ClientKinds ==
    {[type |-> "v3", query |-> TRUE, collections |-> FALSE],
     [type |-> "v3", query |-> FALSE, collections |-> TRUE],
     [type |-> "v4", query |-> TRUE, collections |-> TRUE],
     [type |-> "v4", query |-> FALSE, collections |-> TRUE],
     [type |-> "rest-only", query |-> FALSE, collections |-> FALSE]}
\* what one request to the store comes to
Rows(b) == [kind |-> "rows", rows |-> b]
Raises == [kind |-> "raises", rows |-> <<>>]

\* get_recent_readings once get_client() has returned client: the four
\* paths in order, each given what its request comes to
get_recent_readings(client, v4_query, v4_collections, v3_query, rest) ==
    IF client.type = "v4" /\ client.query /\ v4_query.kind = "rows"
    THEN v4_query.rows
    ELSE IF client.type = "v4" /\ client.collections /\ v4_collections.kind = "rows"
    THEN v4_collections.rows
    ELSE IF client.query /\ v3_query.kind = "rows"
    THEN v3_query.rows
    ELSE IF rest.kind = "rows" /\ rest.rows # <<>>
    THEN rest.rows
    ELSE <<>>

\* run_detection_once_and_maybe_notify returns (sent, text)
EndCycle(how, sent, text) ==
    /\ pc' = "sleep"
    /\ outcome' = how
    /\ result' = Returned(sent, text)

\* the fetch without the `if not readings` return
FetchNoEmptyCheck ==
    /\ pc = "start"
    /\ \E up \in BOOLEAN, c \in ClientKinds :
       \E b \in IF up THEN Batches ELSE {<<>>} :
         LET answer == IF up THEN Rows(b) ELSE Raises
         IN /\ store_up' = up
            /\ _client' = "client"
            /\ readings' = get_recent_readings(c, answer, answer, answer, answer)
            /\ pc' = "detect"
            /\ UNCHANGED <<result, outcome>>
    /\ UNCHANGED <<mailvars, llmvars, storevars, autovars, close_log, interrupted_at, config, now,
                   _last_alert_ts, cycle, anomalies, new_anomalies, i,
                   report_text, recipients, subject, body, calls, sent_log,
                   ledger_at_start, retry_due, fnvars>>

\* readings = get_recent_readings(limit=limit) or []: get_client() returns
\* the cached client or caches a new one, of any kind; the store answers
\* every query with the batch it holds or answers none
Fetch ==
    /\ pc = "start"
    /\ \E up \in BOOLEAN, c \in ClientKinds :
       \E b \in IF up THEN Batches ELSE {<<>>} :
         LET answer == IF up THEN Rows(b) ELSE Raises
         IN /\ store_up' = up
            /\ _client' = "client"
            /\ readings' = get_recent_readings(c, answer, answer, answer, answer)
            /\ IF readings' = <<>>
               THEN EndCycle("no_readings", FALSE, "No readings found.")
               ELSE pc' = "detect" /\ UNCHANGED <<result, outcome>>
    /\ UNCHANGED <<mailvars, llmvars, storevars, autovars, close_log, interrupted_at, config, now,
                   _last_alert_ts, cycle, anomalies, new_anomalies, i,
                   report_text, recipients, subject, body, calls, sent_log,
                   ledger_at_start, retry_due, fnvars>>

\* the error of get_recent_readings leaving the loop
FetchRaisesUncaught ==
    /\ pc = "start"
    /\ _client = "None"
    /\ pc' = "stopped"
    /\ outcome' = "raised"
    /\ UNCHANGED <<svcvars, store_up, config, now, _last_alert_ts, cycle, locals, result, calls,
                   sent_log, ledger_at_start, retry_due, fnvars>>

\* get_recent_readings raises: no client is cached and get_client() can
\* create none; the loop catches the error
FetchRaises ==
    /\ pc = "start"
    /\ _client = "None"
    /\ pc' = "sleep"
    /\ outcome' = "raised"
    /\ UNCHANGED <<svcvars, store_up, config, now, _last_alert_ts, cycle, locals, result, calls,
                   sent_log, ledger_at_start, retry_due, fnvars>>

\* anomalies = detect_anomalies_from_readings(readings)
Detect ==
    /\ pc = "detect"
    /\ anomalies' = detect_anomalies_from_readings(readings, ABSOLUTE_EMERGENCY_PPM)
    /\ IF anomalies' = <<>>
       THEN EndCycle("no_anomalies", FALSE, "No anomalies found.") /\ UNCHANGED i
       ELSE pc' = "filter" /\ i' = 1 /\ UNCHANGED <<result, outcome>>
    /\ UNCHANGED <<svcvars, store_up, config, now, _last_alert_ts, cycle, readings, new_anomalies,
                   report_text, recipients, subject, body, calls, sent_log,
                   ledger_at_start, retry_due, fnvars>>

\* the filter loop without the `if not new_anomalies` return
FilterNoEmptyCheck ==
    /\ pc = "filter"
    /\ LET r == anomalies[i].reading
           trace_id == TraceIdOf(r)
           kept == IF _should_alert_for_trace(_last_alert_ts,
                                              ALERT_COOLDOWN_SECONDS, now, trace_id)
                   THEN Append(new_anomalies, <<trace_id, r>>)
                   ELSE new_anomalies
       IN /\ new_anomalies' = kept
          /\ IF i < Len(anomalies)
             THEN i' = i + 1 /\ UNCHANGED pc
             ELSE i' = 0 /\ pc' = "reason"
    /\ UNCHANGED <<svcvars, store_up, config, now, _last_alert_ts, cycle, readings, anomalies,
                   report_text, recipients, subject, body, calls, sent_log,
                   ledger_at_start, retry_due, fnvars, result, outcome>>

\* one iteration of the filter loop, and the check that follows the last one
Filter ==
    /\ pc = "filter"
    /\ LET r == anomalies[i].reading
           trace_id == TraceIdOf(r)
           kept == IF _should_alert_for_trace(_last_alert_ts,
                                              ALERT_COOLDOWN_SECONDS, now, trace_id)
                   THEN Append(new_anomalies, <<trace_id, r>>)
                   ELSE new_anomalies
       IN /\ new_anomalies' = kept
          /\ IF i < Len(anomalies)
             THEN i' = i + 1 /\ UNCHANGED <<pc, result, outcome>>
             ELSE /\ i' = 0
                  /\ IF kept = <<>>
                     THEN EndCycle("none_new", FALSE,
                                   "Anomalies present but none are new (cooldown).")
                     ELSE pc' = "reason" /\ UNCHANGED <<result, outcome>>
    /\ UNCHANGED <<svcvars, store_up, config, now, _last_alert_ts, cycle, readings, anomalies,
                   report_text, recipients, subject, body, calls, sent_log,
                   ledger_at_start, retry_due, fnvars>>

ReasonerFailed == "LLM reasoner failed: "

\* the first reasoner call with `except Exception` taking the fallback path
ReasonRetriesAnyError ==
    /\ pc = "reason"
    /\ \E o \in {"ok", "TypeError", "Exception"} :
         /\ calls' = [calls EXCEPT !.reasoner = @ + 1,
                                   !.errors = IF o = "ok" THEN @ ELSE Append(@, o)]
         /\ IF o = "ok"
            THEN report_text' = "report" /\ pc' = "recipients"
            ELSE pc' = "reason_fallback" /\ UNCHANGED report_text
    /\ UNCHANGED <<svcvars, store_up, config, now, _last_alert_ts, cycle, readings, anomalies,
                   new_anomalies, i, recipients, subject, body, result, outcome,
                   sent_log, ledger_at_start, retry_due, fnvars>>

\* report = call_chatgpt_reasoner(anomalies_readings, context_readings=readings)
Reason ==
    /\ pc = "reason"
    /\ \E o \in {"ok", "TypeError", "Exception"} :
         /\ calls' = [calls EXCEPT !.reasoner = @ + 1,
                                   !.errors = IF o = "ok" THEN @ ELSE Append(@, o)]
         /\ CASE o = "ok" -> report_text' = "report" /\ pc' = "recipients"
              [] o = "TypeError" -> pc' = "reason_fallback" /\ UNCHANGED report_text
              [] o = "Exception" -> report_text' = ReasonerFailed /\ pc' = "recipients"
    /\ UNCHANGED <<svcvars, store_up, config, now, _last_alert_ts, cycle, readings, anomalies,
                   new_anomalies, i, recipients, subject, body, result, outcome,
                   sent_log, ledger_at_start, retry_due, fnvars>>

\* the second reasoner call with its error ending the cycle
ReasonFallbackEndsCycle ==
    /\ pc = "reason_fallback"
    /\ \E o \in {"ok", "Exception"} :
         /\ calls' = [calls EXCEPT !.reasoner = @ + 1,
                                   !.errors = IF o = "ok" THEN @ ELSE Append(@, o)]
         /\ IF o = "ok"
            THEN report_text' = "report" /\ pc' = "recipients"
                    /\ UNCHANGED <<result, outcome>>
            ELSE report_text' = ReasonerFailed
                    /\ EndCycle("reasoner_error", FALSE, ReasonerFailed)
    /\ UNCHANGED <<svcvars, store_up, config, now, _last_alert_ts, cycle, readings, anomalies,
                   new_anomalies, i, recipients, subject, body,
                   sent_log, ledger_at_start, retry_due, fnvars>>

\* except TypeError: the reasoner is called again with a single dict
ReasonFallback ==
    /\ pc = "reason_fallback"
    /\ \E o \in {"ok", "Exception"} :
         /\ calls' = [calls EXCEPT !.reasoner = @ + 1,
                                   !.errors = IF o = "ok" THEN @ ELSE Append(@, o)]
         /\ report_text' = IF o = "ok" THEN "report" ELSE ReasonerFailed
    /\ pc' = "recipients"
    /\ UNCHANGED <<svcvars, store_up, config, now, _last_alert_ts, cycle, readings, anomalies,
                   new_anomalies, i, recipients, subject, body, result, outcome,
                   sent_log, ledger_at_start, retry_due, fnvars>>

\* the recipients step without the `if not send_to` return
RecipientsUnchecked ==
    /\ pc = "recipients"
    /\ recipients' = IF send_to.given THEN send_to.addrs
                     ELSE IF ALERT_TO # "" THEN <<ALERT_TO>> ELSE <<>>
    /\ pc' = "send"
    /\ subject' = [new_count |-> Len(new_anomalies),
                   threshold |-> ABSOLUTE_EMERGENCY_PPM]
    /\ body' = [report |-> report_text, raw |-> ReadingsOf(new_anomalies)]
    /\ UNCHANGED <<svcvars, store_up, config, now, _last_alert_ts, cycle, readings, anomalies,
                   new_anomalies, i, report_text, calls, sent_log,
                   ledger_at_start, retry_due, fnvars, result, outcome>>

\* the recipients are defaulted from the environment, then subject and body composed
Recipients ==
    /\ pc = "recipients"
    /\ LET to == IF send_to.given THEN send_to.addrs
                 ELSE IF ALERT_TO # "" THEN <<ALERT_TO>> ELSE <<>>
       IN /\ recipients' = to
          /\ IF to = <<>>
             THEN /\ EndCycle("no_recipients", FALSE,
                              report_text \o "\n\nNo recipients configured.")
                  /\ UNCHANGED <<subject, body>>
             ELSE /\ pc' = "send"
                  /\ subject' = [new_count |-> Len(new_anomalies),
                                 threshold |-> ABSOLUTE_EMERGENCY_PPM]
                  /\ body' = [report |-> report_text, raw |-> ReadingsOf(new_anomalies)]
                  /\ UNCHANGED <<result, outcome>>
    /\ UNCHANGED <<svcvars, store_up, config, now, _last_alert_ts, cycle, readings, anomalies,
                   new_anomalies, i, report_text, calls, sent_log,
                   ledger_at_start, retry_due, fnvars>>

\* Send with the traces marked before the outcome of the send is known
SendMarkingFirst ==
    /\ pc = "send"
    /\ calls' = [calls EXCEPT !.send = @ + 1]
    /\ LET F[k \in 0..Len(new_anomalies)] ==
               IF k = 0 THEN _last_alert_ts
               ELSE _mark_alert_sent(F[k - 1], now, new_anomalies[k][1])
       IN _last_alert_ts' = F[Len(new_anomalies)]
    /\ \E ok \in BOOLEAN :
         IF ok
         THEN /\ pc' = "mark"
              /\ i' = 1
              /\ sent_log' = sent_log \cup
                     {[cycle |-> cycle, at |-> now, traces |-> TraceIds(new_anomalies)]}
              /\ UNCHANGED <<result, outcome>>
         ELSE /\ EndCycle("email_error", FALSE, report_text \o "\n\nEmail error: ")
              /\ UNCHANGED <<i, sent_log>>
    /\ UNCHANGED <<svcvars, store_up, config, now, cycle, readings, anomalies,
                   new_anomalies, report_text, recipients, subject, body,
                   ledger_at_start, retry_due, fnvars>>

\* send_email_alert(subject, body, send_to) returns, or raises
Send ==
    /\ pc = "send"
    /\ calls' = [calls EXCEPT !.send = @ + 1]
    /\ \E ok \in BOOLEAN :
         IF ok
         THEN /\ pc' = "mark"
              /\ i' = 1
              /\ sent_log' = sent_log \cup
                     {[cycle |-> cycle, at |-> now, traces |-> TraceIds(new_anomalies)]}
              /\ UNCHANGED <<result, outcome>>
         ELSE /\ EndCycle("email_error", FALSE, report_text \o "\n\nEmail error: ")
              /\ UNCHANGED <<i, sent_log>>
    /\ UNCHANGED <<svcvars, store_up, config, now, _last_alert_ts, cycle, readings, anomalies,
                   new_anomalies, report_text, recipients, subject, body,
                   ledger_at_start, retry_due, fnvars>>

\* Mark leaving the loop after its first iteration
MarkFirstOnly ==
    /\ pc = "mark"
    /\ LET tid == new_anomalies[i][1]
       IN _last_alert_ts' = _mark_alert_sent(_last_alert_ts, now,
                                IF tid # "" THEN tid ELSE AnonKey(now))
    /\ i' = 0
    /\ EndCycle("sent", TRUE, report_text)
    /\ UNCHANGED <<svcvars, store_up, config, now, cycle, readings, anomalies, new_anomalies,
                   report_text, recipients, subject, body, calls, sent_log,
                   ledger_at_start, retry_due, fnvars>>

\* one iteration of: _mark_alert_sent(tid or f"anon-{int(time.time()*1000)}")
Mark ==
    /\ pc = "mark"
    /\ LET tid == new_anomalies[i][1]
       IN _last_alert_ts' = _mark_alert_sent(_last_alert_ts, now,
                                IF tid # "" THEN tid ELSE AnonKey(now))
    /\ IF i < Len(new_anomalies)
       THEN i' = i + 1 /\ UNCHANGED <<pc, result, outcome>>
       ELSE i' = 0 /\ EndCycle("sent", TRUE, report_text)
    /\ UNCHANGED <<svcvars, store_up, config, now, cycle, readings, anomalies, new_anomalies,
                   report_text, recipients, subject, body, calls, sent_log,
                   ledger_at_start, retry_due, fnvars>>

\* the loop going to its next iteration without sleeping after an error
SleepSkippedAfterError ==
    /\ pc = "sleep"
    /\ cycle < MaxCycles
    /\ now + CHECK_INTERVAL_SECONDS <= MaxTime
    /\ now' = IF outcome \in {"raised", "email_error"} THEN now
              ELSE now + CHECK_INTERVAL_SECONDS
    /\ cycle' = cycle + 1
    /\ pc' = "start"
    /\ outcome' = "running"
    /\ retry_due' = IF outcome = "email_error" THEN Range(ReadingsOf(new_anomalies))
                    ELSE {}
    /\ ledger_at_start' = _last_alert_ts
    /\ readings' = <<>>
    /\ anomalies' = <<>>
    /\ new_anomalies' = <<>>
    /\ i' = 0
    /\ report_text' = ""
    /\ recipients' = <<>>
    /\ subject' = NoSubject
    /\ body' = NoBody
    /\ calls' = NoCalls
    /\ result' = NoResult
    /\ store_up' = TRUE
    /\ UNCHANGED <<svcvars, config, _last_alert_ts, sent_log, fnvars>>

\* time.sleep(CHECK_INTERVAL_SECONDS), then the next iteration of while True
Sleep ==
    /\ pc = "sleep"
    /\ cycle < MaxCycles
    /\ now + CHECK_INTERVAL_SECONDS <= MaxTime
    /\ now' = now + CHECK_INTERVAL_SECONDS
    /\ cycle' = cycle + 1
    /\ pc' = "start"
    /\ outcome' = "running"
    /\ retry_due' = IF outcome = "email_error" THEN Range(ReadingsOf(new_anomalies))
                    ELSE {}
    /\ ledger_at_start' = _last_alert_ts
    /\ readings' = <<>>
    /\ anomalies' = <<>>
    /\ new_anomalies' = <<>>
    /\ i' = 0
    /\ report_text' = ""
    /\ recipients' = <<>>
    /\ subject' = NoSubject
    /\ body' = NoBody
    /\ calls' = NoCalls
    /\ result' = NoResult
    /\ store_up' = TRUE
    /\ UNCHANGED <<svcvars, config, _last_alert_ts, sent_log, fnvars>>

LoopPcs == {"start", "detect", "filter", "reason", "reason_fallback",
            "recipients", "send", "mark", "sleep"}

\* KeyboardInterrupt taken only by the sleep between two cycles
CancelBetweenCycles ==
    /\ pc = "sleep"
    /\ pc' = "stopped"
    /\ interrupted_at' = pc
    /\ readings' = <<>>
    /\ anomalies' = <<>>
    /\ new_anomalies' = <<>>
    /\ i' = 0
    /\ report_text' = ""
    /\ recipients' = <<>>
    /\ subject' = NoSubject
    /\ body' = NoBody
    /\ UNCHANGED <<mailvars, clientvars, llmvars, storevars, autovars, store_up, config, now, _last_alert_ts,
                   cycle, result, outcome, calls, sent_log, ledger_at_start,
                   retry_due, fnvars>>

\* KeyboardInterrupt: raised wherever the loop is, it passes every
\* `except Exception` and ends the loop; the frame of the cycle is dropped
Cancel ==
    /\ pc \in LoopPcs
    /\ pc' = "stopped"
    /\ interrupted_at' = pc
    /\ readings' = <<>>
    /\ anomalies' = <<>>
    /\ new_anomalies' = <<>>
    /\ i' = 0
    /\ report_text' = ""
    /\ recipients' = <<>>
    /\ subject' = NoSubject
    /\ body' = NoBody
    /\ UNCHANGED <<mailvars, clientvars, llmvars, storevars, autovars, store_up, config, now, _last_alert_ts,
                   cycle, result, outcome, calls, sent_log, ledger_at_start,
                   retry_due, fnvars>>

\* close_client that leaves the cached client in place
close_client_keeps(after) ==
    /\ IF _client # "None"
       THEN \E has_close, raised \in BOOLEAN :
               close_log' = IF has_close
                            THEN [calls |-> close_log.calls + 1,
                                  raised |-> close_log.raised \/ raised,
                                  held |-> "closable"]
                            ELSE [close_log EXCEPT !.held = "not closable"]
       ELSE UNCHANGED close_log
    /\ UNCHANGED _client
    /\ pc' = after

\* close_client(): close() if there is a client and it has the attribute
\* (the REST-only shim has not), its error ignored; _client = None in every
\* case
close_client(after) ==
    /\ IF _client # "None"
       THEN \E has_close, raised \in BOOLEAN :
               close_log' = IF has_close
                            THEN [calls |-> close_log.calls + 1,
                                  raised |-> close_log.raised \/ raised,
                                  held |-> "closable"]
                            ELSE [close_log EXCEPT !.held = "not closable"]
       ELSE UNCHANGED close_log
    /\ _client' = "None"
    /\ pc' = after

\* what the end of the loop leaves alone
ShutdownFrame ==
    UNCHANGED <<mailvars, llmvars, storevars, autovars, interrupted_at, store_up, config, now, _last_alert_ts,
                cycle, locals, result, outcome, calls, sent_log,
                ledger_at_start, retry_due, fnvars>>

\* finally: close_client()
CloseInFinally ==
    /\ pc = "stopped"
    /\ close_client("exited")
    /\ ShutdownFrame

\* atexit.register(close_client): the hook runs when the interpreter exits
CloseAtExit ==
    /\ pc = "exited"
    /\ close_client("terminated")
    /\ ShutdownFrame

Next ==
    \/ Tick
    \/ Fetch
    \/ FetchRaises
    \/ Detect
    \/ Filter
    \/ Reason
    \/ ReasonFallback
    \/ Recipients
    \/ Send
    \/ Mark
    \/ Sleep
    \/ Cancel
    \/ CloseInFinally
    \/ CloseAtExit

Spec == Init /\ [][Next]_vars

\* --------------------------------------------- the loop running without end
\* The same cycle with no bound on the number of cycles.  The code reads the
\* clock only in the difference now - last (line 178), so the clock is kept
\* relative to an epoch that moves forward with it: a stamp that falls
\* behind the epoch is at least the cooldown old and stays eligible.
Epoch(clock, cooldown) == IF clock > cooldown THEN clock - cooldown ELSE 0
Rebase(ledger, epoch) ==
    [k \in DOMAIN ledger |-> IF ledger[k] > epoch THEN ledger[k] - epoch ELSE 0]

InitLive == Init

\* the fetch when every stored reading carries a trace id
LiveFetch ==
    /\ Fetch
    /\ \A k \in DOMAIN readings' : TraceIdOf(readings'[k]) # ""

\* the loop ending after a cycle whose send failed
LiveSleepStopsOnEmailError ==
    /\ pc = "sleep"
    /\ LET clock == now + CHECK_INTERVAL_SECONDS
           epoch == Epoch(clock, ALERT_COOLDOWN_SECONDS)
       IN /\ now' = clock - epoch
          /\ _last_alert_ts' = Rebase(_last_alert_ts, epoch)
          /\ ledger_at_start' = Rebase(_last_alert_ts, epoch)
    /\ pc' = IF outcome = "email_error" THEN "stopped" ELSE "start"
    /\ outcome' = "running"
    /\ retry_due' = IF outcome = "email_error" THEN Range(ReadingsOf(new_anomalies))
                    ELSE {}
    /\ readings' = <<>>
    /\ anomalies' = <<>>
    /\ new_anomalies' = <<>>
    /\ i' = 0
    /\ report_text' = ""
    /\ recipients' = <<>>
    /\ subject' = NoSubject
    /\ body' = NoBody
    /\ calls' = NoCalls
    /\ result' = NoResult
    /\ store_up' = TRUE
    /\ sent_log' = {}
    /\ UNCHANGED <<svcvars, config, cycle, fnvars>>

\* time.sleep(CHECK_INTERVAL_SECONDS), then the next iteration of while True,
\* whatever the number of iterations before it
LiveSleep ==
    /\ pc = "sleep"
    /\ LET clock == now + CHECK_INTERVAL_SECONDS
           epoch == Epoch(clock, ALERT_COOLDOWN_SECONDS)
       IN /\ now' = clock - epoch
          /\ _last_alert_ts' = Rebase(_last_alert_ts, epoch)
          /\ ledger_at_start' = Rebase(_last_alert_ts, epoch)
    /\ pc' = "start"
    /\ outcome' = "running"
    /\ retry_due' = IF outcome = "email_error" THEN Range(ReadingsOf(new_anomalies))
                    ELSE {}
    /\ readings' = <<>>
    /\ anomalies' = <<>>
    /\ new_anomalies' = <<>>
    /\ i' = 0
    /\ report_text' = ""
    /\ recipients' = <<>>
    /\ subject' = NoSubject
    /\ body' = NoBody
    /\ calls' = NoCalls
    /\ result' = NoResult
    /\ store_up' = TRUE
    /\ sent_log' = {}
    /\ UNCHANGED <<svcvars, config, cycle, fnvars>>

NextLive ==
    \/ LiveFetch
    \/ FetchRaises
    \/ Detect
    \/ Filter
    \/ Reason
    \/ ReasonFallback
    \/ Recipients
    \/ Send
    \/ Mark
    \/ LiveSleep

\* the loop keeps running, and a send that is attempted again and again
\* does not fail every time
SpecLive ==
    /\ InitLive
    /\ [][NextLive]_vars
    /\ WF_vars(NextLive)
    /\ SF_vars(Send /\ pc' = "mark")

\* ------------------------------------------- the ledger functions alone
LedgerKeys == {"t1", "t2"}
LedgerStamps == {0, 1}
TraceIdArgs == {"", "t1", "t2"}
Ledgers == UNION {[D -> LedgerStamps] : D \in SUBSET LedgerKeys}

\* the loop is not running
LoopIdle ==
    /\ CHECK_INTERVAL_SECONDS \in IntervalValues
    /\ send_to = [given |-> FALSE, addrs |-> <<>>]
    /\ ALERT_TO = ""
    /\ cycle = 1
    /\ new_anomalies = <<>>
    /\ i = 0
    /\ report_text = ""
    /\ recipients = <<>>
    /\ subject = NoSubject
    /\ body = NoBody
    /\ result = NoResult
    /\ outcome = "running"
    /\ calls = NoCalls
    /\ sent_log = {}
    /\ ledger_at_start = <<>>
    /\ retry_due = {}
    /\ store_up = TRUE
    /\ interrupted_at = ""

InitDedup ==
    /\ ALERT_COOLDOWN_SECONDS \in CooldownValues
    /\ now \in 0..MaxNow
    /\ _last_alert_ts \in Ledgers
    /\ \A k \in DOMAIN _last_alert_ts : _last_alert_ts[k] <= now
    /\ arg_trace_id \in TraceIdArgs
    /\ pc = "call"
    /\ readings = <<>>
    /\ anomalies = <<>>
    /\ absolute_threshold = ABSOLUTE_EMERGENCY_PPM
    /\ ret = FALSE
    /\ LoopIdle
    /\ MailIdle
    /\ ClientIdle
    /\ ReasonerIdle
    /\ StoreIdle
    /\ AutoIdle

\* ret = _should_alert_for_trace(arg_trace_id)
ShouldAlertCall ==
    /\ pc = "call"
    /\ ret' = _should_alert_for_trace(_last_alert_ts, ALERT_COOLDOWN_SECONDS,
                                       now, arg_trace_id)
    /\ pc' = "returned"
    /\ UNCHANGED <<svcvars, store_up, config, now, _last_alert_ts, cycle, locals, result, outcome,
                   calls, sent_log, ledger_at_start, retry_due,
                   absolute_threshold, arg_trace_id>>

\* _mark_alert_sent(arg_trace_id), at the time of the call before it
MarkCall ==
    /\ pc = "returned"
    /\ _last_alert_ts' = _mark_alert_sent(_last_alert_ts, now, arg_trace_id)
    /\ pc' = "marked"
    /\ UNCHANGED <<svcvars, store_up, config, now, cycle, locals, result, outcome,
                   calls, sent_log, ledger_at_start, retry_due,
                   absolute_threshold, arg_trace_id, ret>>

NextDedup ==
    \/ ShouldAlertCall
    \/ MarkCall

SpecDedup == InitDedup /\ [][NextDedup]_vars

\* ------------------------------------------------- the detector alone
PpmValues == {Num(0), Num(4999), Num(5000), Num(5001), Str("9000"),
              Str("abc"), None}
ThresholdValues == {-1, 0, 1, ABSOLUTE_EMERGENCY_PPM}
DetectorReadings == {Reading(Str("t1"), None, None, p) : p \in PpmValues}

InitDetect ==
    /\ readings \in SeqsUpTo(DetectorReadings, MaxBatch)
    /\ absolute_threshold \in ThresholdValues
    /\ anomalies = <<>>
    /\ pc = "call"
    /\ ALERT_COOLDOWN_SECONDS = DefaultCooldown
    /\ now = 0
    /\ _last_alert_ts = <<>>
    /\ arg_trace_id = ""
    /\ ret = FALSE
    /\ LoopIdle
    /\ MailIdle
    /\ ClientIdle
    /\ ReasonerIdle
    /\ StoreIdle
    /\ AutoIdle

\* anomalies = detect_anomalies_from_readings(readings, absolute_threshold)
DetectCall ==
    /\ pc = "call"
    /\ anomalies' = detect_anomalies_from_readings(readings, absolute_threshold)
    /\ pc' = "returned"
    /\ UNCHANGED <<svcvars, store_up, config, now, _last_alert_ts, cycle, readings, new_anomalies,
                   i, report_text, recipients, subject, body, result, outcome,
                   calls, sent_log, ledger_at_start, retry_due, fnvars>>

NextDetect == DetectCall

SpecDetect == InitDetect /\ [][NextDetect]_vars

\* ------------------------------------------------- the notifier alone
\* values of the ALERT_TO variable
MailEnvValues == {"", " , ", OpsAddress, "ops@example.org, "}
\* to_env_value.split(",")
SplitComma(v) ==
    CASE v = "" -> <<"">>
      [] v = " , " -> <<" ", " ">>
      [] v = OpsAddress -> <<OpsAddress>>
      [] v = "ops@example.org, " -> <<OpsAddress, " ">>
\* s.strip()
Strip(f) == IF f = " " THEN "" ELSE f
\* _get_recipient_list(to_env_value)
_get_recipient_list(to_env_value) ==
    IF to_env_value = "" THEN <<>>
    ELSE LET parts == SplitComma(to_env_value)
             kept == SelectSeq(parts, LAMBDA f : Strip(f) # "")
         IN [k \in DOMAIN kept |-> Strip(kept[k])]

has_gmail_creds == GMAIL_USER /\ GMAIL_APP_PASSWORD
\* a delay that grows by RETRY_DELAY_SECONDS with each attempt
BackoffLinear(n) == RETRY_DELAY_SECONDS * n
\* RETRY_DELAY_SECONDS * (2 ** (attempt - 1))
Backoff(n) == RETRY_DELAY_SECONDS * 2 ^ (n - 1)

InitEmail ==
    /\ to_addrs \in SendToArgs
    /\ email_ALERT_TO \in MailEnvValues
    /\ GMAIL_USER \in BOOLEAN
    /\ GMAIL_APP_PASSWORD \in BOOLEAN
    /\ SENDGRID_API_KEY \in BOOLEAN
    /\ SENDGRID_FROM \in BOOLEAN
    /\ smtp465_ok = FALSE
    /\ smtp587_ok = FALSE
    /\ attempt = 0
    /\ tried = NoTries
    /\ delays = <<>>
    /\ pc = "call"
    /\ ret = FALSE
    /\ ALERT_COOLDOWN_SECONDS = DefaultCooldown
    /\ now = 0
    /\ _last_alert_ts = <<>>
    /\ readings = <<>>
    /\ anomalies = <<>>
    /\ absolute_threshold = ABSOLUTE_EMERGENCY_PPM
    /\ arg_trace_id = ""
    /\ LoopIdle
    /\ ClientIdle
    /\ ReasonerIdle
    /\ StoreIdle
    /\ AutoIdle

\* what send_email_alert leaves alone
MailFrame ==
    UNCHANGED <<config, now, _last_alert_ts, cycle, locals, result, outcome,
                calls, sent_log, ledger_at_start, retry_due, store_up,
                interrupted_at, absolute_threshold, arg_trace_id, mailenv,
                clientvars, llmvars, storevars, autovars>>

\* send_email_alert without its recipients check
ResolveUnchecked ==
    /\ pc = "call"
    /\ LET addrs == IF to_addrs.given THEN to_addrs.addrs
                    ELSE _get_recipient_list(email_ALERT_TO)
       IN /\ to_addrs' = [to_addrs EXCEPT !.addrs = addrs]
          /\ pc' = "probe465"
    /\ UNCHANGED <<ret, smtp465_ok, smtp587_ok, attempt, tried, delays>>
    /\ MailFrame

\* send_email_alert: the defaulting of to_addrs and the recipients check
ResolveRecipients ==
    /\ pc = "call"
    /\ LET addrs == IF to_addrs.given THEN to_addrs.addrs
                    ELSE _get_recipient_list(email_ALERT_TO)
       IN /\ to_addrs' = [to_addrs EXCEPT !.addrs = addrs]
          /\ pc' = IF addrs = <<>> THEN "raised" ELSE "probe465"
    /\ UNCHANGED <<ret, smtp465_ok, smtp587_ok, attempt, tried, delays>>
    /\ MailFrame

\* smtp465_ok = _check_port("smtp.gmail.com", 465)
Probe465 ==
    /\ pc = "probe465"
    /\ \E ok \in BOOLEAN : smtp465_ok' = ok
    /\ tried' = [tried EXCEPT !.probes = @ + 1]
    /\ pc' = "probe587"
    /\ UNCHANGED <<ret, to_addrs, smtp587_ok, attempt, delays>>
    /\ MailFrame

\* smtp587_ok = _check_port("smtp.gmail.com", 587), then the choice of channel
Probe587 ==
    /\ pc = "probe587"
    /\ \E ok \in BOOLEAN :
          /\ smtp587_ok' = ok
          /\ IF has_gmail_creds /\ (smtp465_ok \/ ok)
             THEN /\ pc' = IF smtp465_ok THEN "smtp_ssl" ELSE "smtp_starttls"
                  /\ attempt' = 1
             ELSE /\ pc' = "fallback"
                  /\ UNCHANGED attempt
    /\ tried' = [tried EXCEPT !.probes = @ + 1]
    /\ UNCHANGED <<ret, to_addrs, smtp465_ok, delays>>
    /\ MailFrame

\* _try_smtp_ssl giving up after its first failed attempt
TrySmtpSslOnce ==
    /\ pc = "smtp_ssl"
    /\ \E ok \in BOOLEAN :
          IF ok
          THEN /\ pc' = "returned"
               /\ ret' = TRUE
               /\ tried' = [tried EXCEPT !.ssl = @ + 1, !.sent = "ssl"]
               /\ UNCHANGED <<attempt, delays>>
          ELSE /\ tried' = [tried EXCEPT !.ssl = @ + 1]
               /\ delays' = Append(delays, Backoff(attempt))
               /\ attempt' = 1
               /\ pc' = IF smtp587_ok THEN "smtp_starttls" ELSE "fallback"
               /\ UNCHANGED ret
    /\ UNCHANGED <<to_addrs, smtp465_ok, smtp587_ok>>
    /\ MailFrame

\* _try_smtp_ssl: one iteration of its retry loop, on to the next channel
\* once the loop is exhausted
TrySmtpSsl ==
    /\ pc = "smtp_ssl"
    /\ attempt <= MAX_RETRIES
    /\ \E ok \in BOOLEAN :
          IF ok
          THEN /\ pc' = "returned"
               /\ ret' = TRUE
               /\ tried' = [tried EXCEPT !.ssl = @ + 1, !.sent = "ssl"]
               /\ UNCHANGED <<attempt, delays>>
          ELSE /\ tried' = [tried EXCEPT !.ssl = @ + 1]
               /\ delays' = Append(delays, Backoff(attempt))
               /\ IF attempt < MAX_RETRIES
                  THEN attempt' = attempt + 1 /\ UNCHANGED pc
                  ELSE /\ attempt' = 1
                       /\ pc' = IF smtp587_ok THEN "smtp_starttls" ELSE "fallback"
               /\ UNCHANGED ret
    /\ UNCHANGED <<to_addrs, smtp465_ok, smtp587_ok>>
    /\ MailFrame

\* _try_smtp_starttls giving up after its first failed attempt
TrySmtpStarttlsOnce ==
    /\ pc = "smtp_starttls"
    /\ \E ok \in BOOLEAN :
          IF ok
          THEN /\ pc' = "returned"
               /\ ret' = TRUE
               /\ tried' = [tried EXCEPT !.starttls = @ + 1, !.sent = "starttls"]
               /\ UNCHANGED <<attempt, delays>>
          ELSE /\ tried' = [tried EXCEPT !.starttls = @ + 1]
               /\ delays' = Append(delays, Backoff(attempt))
               /\ attempt' = 1
               /\ pc' = "fallback"
               /\ UNCHANGED ret
    /\ UNCHANGED <<to_addrs, smtp465_ok, smtp587_ok>>
    /\ MailFrame

\* _try_smtp_starttls: one iteration of its retry loop
TrySmtpStarttls ==
    /\ pc = "smtp_starttls"
    /\ attempt <= MAX_RETRIES
    /\ \E ok \in BOOLEAN :
          IF ok
          THEN /\ pc' = "returned"
               /\ ret' = TRUE
               /\ tried' = [tried EXCEPT !.starttls = @ + 1, !.sent = "starttls"]
               /\ UNCHANGED <<attempt, delays>>
          ELSE /\ tried' = [tried EXCEPT !.starttls = @ + 1]
               /\ delays' = Append(delays, Backoff(attempt))
               /\ IF attempt < MAX_RETRIES
                  THEN attempt' = attempt + 1 /\ UNCHANGED pc
                  ELSE attempt' = 1 /\ pc' = "fallback"
               /\ UNCHANGED ret
    /\ UNCHANGED <<to_addrs, smtp465_ok, smtp587_ok>>
    /\ MailFrame

\* send_email_alert without its SendGrid fallback
FallbackSkipped ==
    /\ pc = "fallback"
    /\ pc' = "raised"
    /\ UNCHANGED <<ret, to_addrs, smtp465_ok, smtp587_ok, attempt, tried, delays>>
    /\ MailFrame

\* if SENDGRID_API_KEY: ... else the final raise
Fallback ==
    /\ pc = "fallback"
    /\ pc' = IF SENDGRID_API_KEY THEN "sendgrid" ELSE "raised"
    /\ UNCHANGED <<ret, to_addrs, smtp465_ok, smtp587_ok, attempt, tried, delays>>
    /\ MailFrame

\* send_email_alert returning what _send_via_sendgrid returned
SendgridResultReturned ==
    /\ pc = "sendgrid"
    /\ pc' = "returned"
    /\ IF ~SENDGRID_API_KEY \/ ~SENDGRID_FROM
       THEN UNCHANGED <<ret, tried>>
       ELSE \E ok \in BOOLEAN :
               IF ok
               THEN /\ ret' = TRUE
                    /\ tried' = [tried EXCEPT !.sendgrid = @ + 1, !.sent = "sendgrid"]
               ELSE /\ tried' = [tried EXCEPT !.sendgrid = @ + 1]
                    /\ UNCHANGED ret
    /\ UNCHANGED <<to_addrs, smtp465_ok, smtp587_ok, attempt, delays>>
    /\ MailFrame

\* _send_via_sendgrid, and the final raise when it returns False
SendViaSendgrid ==
    /\ pc = "sendgrid"
    /\ IF ~SENDGRID_API_KEY \/ ~SENDGRID_FROM
       THEN pc' = "raised" /\ UNCHANGED <<ret, tried>>
       ELSE \E ok \in BOOLEAN :
               IF ok
               THEN /\ pc' = "returned"
                    /\ ret' = TRUE
                    /\ tried' = [tried EXCEPT !.sendgrid = @ + 1, !.sent = "sendgrid"]
               ELSE /\ pc' = "raised"
                    /\ tried' = [tried EXCEPT !.sendgrid = @ + 1]
                    /\ UNCHANGED ret
    /\ UNCHANGED <<to_addrs, smtp465_ok, smtp587_ok, attempt, delays>>
    /\ MailFrame

NextEmail ==
    \/ ResolveRecipients
    \/ Probe465
    \/ Probe587
    \/ TrySmtpSsl
    \/ TrySmtpStarttls
    \/ Fallback
    \/ SendViaSendgrid

SpecEmail == InitEmail /\ [][NextEmail]_vars
\* every probe, send attempt and request is bounded by its socket timeout
\* and every sleep by its argument, so the call keeps taking steps
SpecEmailFair == SpecEmail /\ WF_vars(NextEmail)

\* ------------------------------------------------- the reasoner alone
\* The response text in tokens: a word of prose, a brace or bracket, the
\* member "decision": <value>, the member "confidence": <value>, the string
\* literals "decision", "confidence" and "decision confidence", a number.
\* A member token stands for a value the system prompt asks for ("decision"
\* one of escalate, monitor, ignore; "confidence" a number in [0,1]), its
\* _other twin for any other JSON value. Commas and blanks are left out.
Tokens == {"prose", "{", "}", "[", "]", "m_decision", "m_confidence",
           "m_decision_other", "m_confidence_other",
           "s_decision", "s_confidence", "s_decision_confidence", "number"}
ResponseTexts == SeqsUpTo(Tokens, MaxTokens)

DecisionMembers == {"m_decision", "m_decision_other"}
ConfidenceMembers == {"m_confidence", "m_confidence_other"}
Members == DecisionMembers \cup ConfidenceMembers
\* the value an object holds under a key: that of the last member with the
\* key, as json.loads keeps the last of repeated keys
ValueOf(blob, members) ==
    LET at == {k \in DOMAIN blob : blob[k] \in members}
    IN IF at = {} THEN "absent"
       ELSE LET last == CHOOSE k \in at : \A j \in at : j <= k
            IN IF blob[last] \in {"m_decision", "m_confidence"}
               THEN "in schema" ELSE "other"
Strings == {"s_decision", "s_confidence", "s_decision_confidence"}
Scalars == Strings \cup {"number"}

\* text.find(tok): the first index of the token, -1 if there is none
Find(text, tok) ==
    IF \E k \in DOMAIN text : text[k] = tok
    THEN CHOOSE k \in DOMAIN text :
            text[k] = tok /\ \A j \in 1..(k - 1) : text[j] # tok
    ELSE -1
\* text.rfind(tok): the last index of the token, -1 if there is none
RFind(text, tok) ==
    IF \E k \in DOMAIN text : text[k] = tok
    THEN CHOOSE k \in DOMAIN text :
            text[k] = tok /\ \A j \in (k + 1)..Len(text) : text[j] # tok
    ELSE -1

\* the span handed to json.loads
json_blob(text) ==
    LET start == Find(text, "{")
        end == RFind(text, "}")
    IN IF start # -1 /\ end # -1 /\ end > start
       THEN SubSeq(text, start, end)
       ELSE text

\* the JSON grammar over tokens: G[<<"value", a, b>>] says that blob[a..b] is
\* one JSON value, G[<<"values", a, b>>] that it is a row of JSON values
Grammar(blob) ==
    LET n == Len(blob)
        G[span \in {"value", "values"} \X (1..(n + 1)) \X (0..n)] ==
            LET a == span[2]
                b == span[3]
            IN IF span[1] = "values"
               THEN a > b \/ \E k \in a..b : G[<<"value", a, k>>]
                                               /\ G[<<"values", k + 1, b>>]
               ELSE \/ a = b /\ blob[a] \in Scalars
                    \/ a < b /\ blob[a] = "[" /\ blob[b] = "]"
                             /\ G[<<"values", a + 1, b - 1>>]
                    \/ a < b /\ blob[a] = "{" /\ blob[b] = "}"
                             /\ \A k \in (a + 1)..(b - 1) : blob[k] \in Members
    IN G

NoValues == [decision |-> "absent", confidence |-> "absent"]
NotJson == [type |-> "invalid", has |-> {}, values |-> NoValues]
\* json.loads(blob): the type of the value and what `in` finds in it (the
\* keys of an object, the elements of an array, the substrings of a string)
json_loads(blob) ==
    LET n == Len(blob)
        G == Grammar(blob)
    IN IF n = 0 \/ ~G[<<"value", 1, n>>] THEN NotJson
       ELSE IF blob[1] = "{"
       THEN [type |-> "dict",
             has |-> {"decision" : k \in {j \in 2..(n - 1) : blob[j] \in DecisionMembers}}
                     \cup {"confidence" : k \in {j \in 2..(n - 1) : blob[j] \in ConfidenceMembers}},
             values |-> [decision |-> ValueOf(blob, DecisionMembers),
                         confidence |-> ValueOf(blob, ConfidenceMembers)]]
       ELSE IF blob[1] = "["
       THEN LET top == {k \in 2..(n - 1) : /\ blob[k] \in Strings
                                           /\ G[<<"values", 2, k - 1>>]
                                           /\ G[<<"values", k + 1, n - 1>>]}
            IN [type |-> "list",
                has |-> {"decision" : k \in {j \in top : blob[j] = "s_decision"}}
                        \cup {"confidence" : k \in {j \in top : blob[j] = "s_confidence"}},
                values |-> NoValues]
       ELSE IF blob[1] = "number"
       THEN [type |-> "number", has |-> {}, values |-> NoValues]
       ELSE [type |-> "str",
             has |-> CASE blob[1] = "s_decision" -> {"decision"}
                       [] blob[1] = "s_confidence" -> {"confidence"}
                       [] blob[1] = "s_decision_confidence" -> {"decision", "confidence"},
             values |-> NoValues]

Raised(error) == [kind |-> "raised", error |-> error, result |-> NotJson]
\* call_chatgpt_reasoner, given whether the API call returns and the text of
\* the response
call_chatgpt_reasoner(ok, text) ==
    IF ~ok THEN Raised("RuntimeError")
    ELSE LET parsed == json_loads(json_blob(text))
         IN IF parsed.type = "invalid" THEN Raised("ValueError")
            ELSE IF parsed.type = "number" THEN Raised("TypeError")
            ELSE IF "decision" \notin parsed.has \/ "confidence" \notin parsed.has
            THEN Raised("ValueError")
            ELSE [kind |-> "returned", error |-> "", result |-> parsed]

InitReasoner ==
    /\ api_ok \in BOOLEAN
    /\ raw_text \in ResponseTexts
    /\ pc = "call"
    /\ ret = FALSE
    /\ ALERT_COOLDOWN_SECONDS = DefaultCooldown
    /\ now = 0
    /\ _last_alert_ts = <<>>
    /\ readings = <<>>
    /\ anomalies = <<>>
    /\ absolute_threshold = ABSOLUTE_EMERGENCY_PPM
    /\ arg_trace_id = ""
    /\ LoopIdle
    /\ MailIdle
    /\ ClientIdle
    /\ StoreIdle
    /\ AutoIdle

\* ret = call_chatgpt_reasoner(...), or the error it raised
ReasonerCall ==
    /\ pc = "call"
    /\ ret' = call_chatgpt_reasoner(api_ok, raw_text)
    /\ pc' = "returned"
    /\ UNCHANGED <<svcvars, store_up, config, now, _last_alert_ts, cycle, locals,
                   result, outcome, calls, sent_log, ledger_at_start, retry_due,
                   absolute_threshold, arg_trace_id>>

NextReasoner == ReasonerCall

SpecReasoner == InitReasoner /\ [][NextReasoner]_vars

\* ------------------------------------------- the store and its HTTP API
\* One behaviour is a run of calls against one store: POST /sensor-data,
\* the simulator's insert_sensor_event, get_recent_readings, and the clock.
RequiredFields == <<"timestamp", "node_id", "methane_ppm">>
Fields == {"timestamp", "node_id", "methane_ppm", "scenario", "trace_id"}
ClientValue(key, ppm) ==
    CASE key = "timestamp" -> Str("t1")
      [] key = "node_id" -> Str("Sensor_A")
      [] key = "methane_ppm" -> ppm
      [] key = "scenario" -> Str("leak")
      [] key = "trace_id" -> Str("client-1")
\* the JSON objects a client posts: any of the required fields may be
\* absent, with both optional fields or neither; a body with the required
\* fields has any of the optional ones; methane_ppm is a string float()
\* converts or one it does not
FieldSets ==
    {ks \in SUBSET Fields :
        \/ Range(RequiredFields) \subseteq ks
        \/ ("scenario" \in ks <=> "trace_id" \in ks)}
Bodies ==
    {[k \in ks |-> ClientValue(k, ppm)] :
        ks \in FieldSets, ppm \in {Str("9000"), Str("abc")}}

\* d.setdefault(key, value)
SetDefault(d, key, value) ==
    IF key \in DOMAIN d THEN d
    ELSE [k \in DOMAIN d \cup {key} |-> IF k = key THEN value ELSE d[k]]

\* f"trace-{int(datetime.now(tz=timezone.utc).timestamp() * 1000)}"
MsTraceId(ms) == Str("trace-" \o ToString(ms))
\* f"trace-{datetime.utcnow().isoformat()}"
IsoTraceId(ms) == Str("trace-iso-" \o ToString(ms))
\* datetime.now(tz=timezone.utc).isoformat()
IsoTimestamp(ms) == Str("iso-" \o ToString(ms))

NoObject == [timestamp |-> None, node_id |-> None, methane_ppm |-> None,
             scenario |-> None, trace_id |-> None]
InsertRaised(error) ==
    [kind |-> "raised", error |-> error, obj |-> NoObject, trace_id |-> None]
\* insert_sensor_event returning an id made after the object was built
insert_sensor_event_new_id(node_id, methane_ppm, scenario, trace_id, timestamp, ms, accepts) ==
    LET tid == IF trace_id = None THEN MsTraceId(ms) ELSE trace_id
        ts == IF timestamp = None THEN IsoTimestamp(ms) ELSE timestamp
    IN IF ~FloatAccepts(methane_ppm)
       THEN InsertRaised(IF methane_ppm.t = "str" THEN "ValueError" ELSE "TypeError")
       ELSE IF ~accepts THEN InsertRaised("RuntimeError")
       ELSE [kind |-> "returned", error |-> "",
             obj |-> [timestamp |-> ts, node_id |-> node_id,
                      methane_ppm |-> Num(_safe_float(methane_ppm, 0)),
                      scenario |-> scenario, trace_id |-> tid],
             trace_id |-> MsTraceId(ms + 1)]

\* insert_sensor_event at the time ms, the store taking the object or not:
\* the object it creates and the trace id it returns, or the error it raises
insert_sensor_event(node_id, methane_ppm, scenario, trace_id, timestamp, ms, accepts) ==
    LET tid == IF trace_id = None THEN MsTraceId(ms) ELSE trace_id
        ts == IF timestamp = None THEN IsoTimestamp(ms) ELSE timestamp
    IN IF ~FloatAccepts(methane_ppm)
       THEN InsertRaised(IF methane_ppm.t = "str" THEN "ValueError" ELSE "TypeError")
       ELSE IF ~accepts THEN InsertRaised("RuntimeError")
       ELSE [kind |-> "returned", error |-> "",
             obj |-> [timestamp |-> ts, node_id |-> node_id,
                      methane_ppm |-> Num(_safe_float(methane_ppm, 0)),
                      scenario |-> scenario, trace_id |-> tid],
             trace_id |-> tid]

NoCall == [op |-> "none"]
\* the response, with the request body it answers
JSONResponse(request, status_code, error, data) ==
    [op |-> "post", request |-> request, status_code |-> status_code,
     error |-> error, data |-> data]

InitStore ==
    /\ StoreIdle
    /\ AutoIdle
    /\ pc = "serve"
    /\ ret = NoCall
    /\ ALERT_COOLDOWN_SECONDS = DefaultCooldown
    /\ now = 0
    /\ _last_alert_ts = <<>>
    /\ readings = <<>>
    /\ anomalies = <<>>
    /\ absolute_threshold = ABSOLUTE_EMERGENCY_PPM
    /\ arg_trace_id = ""
    /\ LoopIdle
    /\ MailIdle
    /\ ClientIdle
    /\ ReasonerIdle

StoreFrame ==
    UNCHANGED <<mailvars, clientvars, llmvars, autovars, interrupted_at, store_up, config,
                now, _last_alert_ts, pc, cycle, locals, result, outcome, calls,
                sent_log, ledger_at_start, retry_due, absolute_threshold,
                arg_trace_id>>

\* the object goes into the store; the log keeps the trace id the caller
\* passed in, the one insert_sensor_event returned and the one the caller of
\* the ingestion was told
Stored(ins, via, supplied, reported) ==
    /\ Len(objects) < MaxStored
    /\ objects' = Append(objects, ins.obj)
    /\ ingest_log' = Append(ingest_log, [via |-> via, supplied |-> supplied,
                                         returned |-> ins.trace_id,
                                         reported |-> reported])

\* POST /sensor-data answering 200 without the field check and the insert
receive_sensor_data_unchecked ==
    /\ pc = "serve"
    /\ \E data \in Bodies :
         ret' = JSONResponse(data, 200, "", data)
    /\ UNCHANGED <<objects, ingest_log, utc_ms>>
    /\ StoreFrame

\* POST /sensor-data
receive_sensor_data ==
    /\ pc = "serve"
    /\ \E data \in Bodies :
         LET missing == {k \in DOMAIN RequiredFields : RequiredFields[k] \notin DOMAIN data}
         IN IF missing # {}
            THEN LET first == CHOOSE k \in missing : \A j \in missing : k <= j
                 IN /\ ret' = JSONResponse(data, 400, "Missing required field: "
                                                \o RequiredFields[first], <<>>)
                    /\ UNCHANGED <<objects, ingest_log>>
            ELSE \E accepts \in BOOLEAN :
                 LET full == SetDefault(SetDefault(data, "scenario", Str("normal")),
                                        "trace_id", IsoTraceId(utc_ms))
                     ins == insert_sensor_event(full["node_id"], full["methane_ppm"],
                                                full["scenario"], None,
                                                full["timestamp"], utc_ms, accepts)
                 IN IF ins.kind = "raised"
                    THEN /\ ret' = JSONResponse(data, 500, ins.error, <<>>)
                         /\ UNCHANGED <<objects, ingest_log>>
                    ELSE /\ Stored(ins, "api",
                                   IF "trace_id" \in DOMAIN data
                                   THEN data["trace_id"] ELSE None,
                                   full["trace_id"])
                         /\ ret' = JSONResponse(data, 200, "", full)
    /\ UNCHANGED utc_ms
    /\ StoreFrame

\* run_simulation: trace = insert_sensor_event(node_id=..., methane_ppm=...,
\* scenario=...)
run_simulation ==
    /\ pc = "serve"
    /\ \E accepts \in BOOLEAN :
         LET ins == insert_sensor_event(Str("node_1"), Num(600), Str("spike"),
                                        None, None, utc_ms, accepts)
         IN /\ ret' = [op |-> "insert", kind |-> ins.kind, error |-> ins.error,
                       trace_id |-> ins.trace_id]
            /\ IF ins.kind = "raised"
               THEN UNCHANGED <<objects, ingest_log>>
               ELSE Stored(ins, "insert", None, ins.trace_id)
    /\ UNCHANGED utc_ms
    /\ StoreFrame

\* what the store may answer to a query that carries a limit and no sort:
\* limit of its objects (all of them if it has fewer), in an order of its own
StoreAnswers(objs, limit) ==
    LET n == IF limit < Len(objs) THEN limit ELSE Len(objs)
        picks == {sel \in [1..n -> DOMAIN objs] :
                     \A a, b \in 1..n : a # b => sel[a] # sel[b]}
    IN {[k \in 1..n |-> objs[sel[k]]] : sel \in picks}

\* ret = get_recent_readings(limit=limit)
GetRecentReadings ==
    /\ pc = "serve"
    /\ \E limit \in {1, MaxStored} :
       \E answer \in {Raises} \cup {Rows(rows) : rows \in StoreAnswers(objects, limit)} :
       \E got \in {get_recent_readings(c, answer, answer, answer, answer) :
                      c \in ClientKinds} :
            ret' = [op |-> "fetch", limit |-> limit, up |-> answer.kind = "rows",
                    held |-> Len(objects), readings |-> got]
    /\ UNCHANGED <<objects, ingest_log, utc_ms>>
    /\ StoreFrame

\* a millisecond passes
TickMs ==
    /\ pc = "serve"
    /\ utc_ms < MaxMs
    /\ utc_ms' = utc_ms + 1
    /\ UNCHANGED <<objects, ingest_log, ret>>
    /\ StoreFrame

NextStore ==
    \/ receive_sensor_data
    \/ run_simulation
    \/ GetRecentReadings
    \/ TickMs

SpecStore == InitStore /\ [][NextStore]_vars

\* ------------------------------------------------- run/auto_cycle.py
\* The statements of the module's code block that bind or declare a name, in
\* textual order.  The bodies of `if __name__ == "__main__":` and of
\* `while True:` belong to the block of the module: only a function or a
\* class opens a new one.
AutoCycleBlock ==
    <<[line |-> 9, stmt |-> "assign", name |-> "API_URL"],
      [line |-> 10, stmt |-> "assign", name |-> "CHECK_INTERVAL"],
      [line |-> 11, stmt |-> "assign", name |-> "LAST_TIMESTAMP"],
      [line |-> 42, stmt |-> "global", name |-> "LAST_TIMESTAMP"],
      [line |-> 43, stmt |-> "assign", name |-> "LAST_TIMESTAMP"],
      [line |-> 46, stmt |-> "assign", name |-> "new_timestamp"],
      [line |-> 51, stmt |-> "assign", name |-> "LAST_TIMESTAMP"]>>

\* Python's compilation of a code block: a name listed in a global statement
\* must not be bound earlier in the same block, or the block is rejected
\* with "name ... is assigned to before global declaration"
py_compile(block) ==
    IF \E k \in DOMAIN block :
          /\ block[k].stmt = "global"
          /\ \E j \in 1..(k - 1) : block[j].name = block[k].name
    THEN "SyntaxError"
    ELSE "main"

\* python run/auto_cycle.py: the file is compiled as a whole before its first
\* statement runs, so a rejected file makes no request and starts no loop
LaunchAutoCycle ==
    /\ auto_pc = "not started"
    /\ auto_pc' = py_compile(AutoCycleBlock)
    /\ UNCHANGED <<mailvars, clientvars, llmvars, storevars, interrupted_at, store_up,
                   config, now, _last_alert_ts, pc, cycle, locals, result, outcome,
                   calls, sent_log, ledger_at_start, retry_due, fnvars>>

\* the ingestion and the store the script would poll, and the script
NextAuto ==
    \/ NextStore
    \/ LaunchAutoCycle

SpecAuto == InitStore /\ [][NextAuto]_vars

\* ================================================================ claims
FilterDone == pc \in {"reason", "reason_fallback", "recipients", "send", "mark", "sleep"}
                /\ outcome # "raised"
CycleEnded == pc = "sleep" /\ outcome # "raised"
SentThisCycle == \E e \in sent_log : e.cycle = cycle
\* the non-empty trace ids of all successfully sent alerts
SentTraces == UNION {e.traces : e \in sent_log} \ {""}
\* some successfully sent alert held a reading without trace id
SentAnon == \E e \in sent_log : "" \in e.traces
\* the reading carries no usable trace_id, traceid or id
NoTraceId(r) == ~Truthy(r.trace_id) /\ ~Truthy(r.traceid) /\ ~Truthy(r.id)

\* C1: two successful sends of different cycles whose batches share a
\* non-empty trace id returned at least ALERT_COOLDOWN_SECONDS apart.
C1_CooldownBetweenSends ==
    \A a \in sent_log : \A b \in sent_log :
        (a.cycle < b.cycle /\ ((a.traces \cap b.traces) \ {""}) # {})
            => b.at - a.at >= ALERT_COOLDOWN_SECONDS

C1_Witness ==
    \E a \in sent_log : \E b \in sent_log :
        /\ a.cycle < b.cycle
        /\ ((a.traces \cap b.traces) \ {""}) # {}
        /\ b.at - a.at = ALERT_COOLDOWN_SECONDS

\* C2: _should_alert_for_trace(t) is true exactly when t is empty, or the
\* ledger has no entry for t, or now - ledger[t] >= ALERT_COOLDOWN_SECONDS;
\* with cooldown 300 and ledger[t] = 0 it is false for now in 0..299 and
\* true at now = 300.
C2_ShouldAlertPolicy ==
    pc = "returned" =>
        /\ ret = (\/ arg_trace_id = ""
                  \/ arg_trace_id \notin DOMAIN _last_alert_ts
                  \/ now - _last_alert_ts[arg_trace_id] >= ALERT_COOLDOWN_SECONDS)
        /\ (/\ ALERT_COOLDOWN_SECONDS = 300
            /\ arg_trace_id \in DOMAIN _last_alert_ts
            /\ _last_alert_ts[arg_trace_id] = 0)
              => /\ now \in 0..299 => ret = FALSE
                 /\ now = 300 => ret = TRUE

C2_Witness ==
    /\ pc = "returned"
    /\ ALERT_COOLDOWN_SECONDS = 300
    /\ arg_trace_id = "t1"
    /\ "t1" \in DOMAIN _last_alert_ts
    /\ _last_alert_ts["t1"] = 0
    /\ now = 299
    /\ ret = FALSE

\* C3: the ledger changes only in the mark loop of a cycle whose send has
\* returned successfully; a cycle that ends with no readings, no anomalies,
\* no new anomalies, no recipients or a send error leaves the ledger as it
\* was when the cycle started.
C3_LedgerOnlyAfterSend ==
    /\ [](outcome \in {"no_readings", "no_anomalies", "none_new",
                       "no_recipients", "email_error"}
            => _last_alert_ts = ledger_at_start)
    /\ [][_last_alert_ts' # _last_alert_ts
            => pc = "mark" /\ calls.send = 1 /\ SentThisCycle]_vars

C3_Witness ==
    /\ outcome = "email_error"
    /\ cycle = 2
    /\ _last_alert_ts # <<>>
    /\ _last_alert_ts = ledger_at_start

\* C4: when send_email_alert raises, no trace id of the cycle's new
\* anomalies is marked, and in the next cycle every such reading that is
\* fetched again passes the filter again and a send is attempted again.
C4_FailedSendIsRetried ==
    /\ outcome = "email_error" => _last_alert_ts = ledger_at_start
    /\ FilterDone =>
          \A r \in retry_due \cap Range(readings) :
              \E k \in DOMAIN new_anomalies : new_anomalies[k][2] = r
    /\ (CycleEnded /\ retry_due \cap Range(readings) # {}) => calls.send = 1

C4_Witness ==
    /\ CycleEnded
    /\ \E r \in retry_due \cap Range(readings) : ~NoTraceId(r)
    /\ calls.send = 1

IsAnonKey(k) == \E t \in 0..MaxTime : k = AnonKey(t)

\* C5 as stated: every key of the ledger is the trace identifier of a
\* reading that was part of a successfully sent alert.
C5_KeysAreSentTraceIds ==
    \A k \in DOMAIN _last_alert_ts : k \in SentTraces

\* C5 as amended: every key of the ledger is the non-empty trace identifier
\* of a reading of a successfully sent alert, or a key anon-<milliseconds>
\* made at marking time for a reading without trace identifier of such an
\* alert.
C5_KeysAreSentOrAnon ==
    \A k \in DOMAIN _last_alert_ts :
        \/ k \in SentTraces
        \/ IsAnonKey(k) /\ SentAnon

C5_Witness ==
    /\ \E k \in DOMAIN _last_alert_ts : IsAnonKey(k)
    /\ "t1" \in DOMAIN _last_alert_ts

\* C6: an anomaly whose reading has no trace id passes the filter in every
\* cycle in which it is fetched, whatever the ledger holds.
C6_EmptyTraceAlwaysPasses ==
    FilterDone =>
        LET anon == {k \in DOMAIN anomalies : NoTraceId(anomalies[k].reading)}
            kept == {k \in DOMAIN new_anomalies : NoTraceId(new_anomalies[k][2])}
        IN /\ Cardinality(kept) = Cardinality(anon)
           /\ anon # {} => outcome # "none_new"

C6_Witness ==
    /\ cycle = 2
    /\ pc = "reason"
    /\ \E k \in DOMAIN _last_alert_ts : IsAnonKey(k)
    /\ \E e \in sent_log : e.cycle = 1 /\ "" \in e.traces
    /\ \E k \in DOMAIN new_anomalies : NoTraceId(new_anomalies[k][2])

\* C7: a cycle in which every detected anomaly has a non-empty trace id
\* marked less than ALERT_COOLDOWN_SECONDS ago ends with anomalies detected,
\* the reasoner and send_email_alert not called, not-sent reported and the
\* ledger unchanged.
AllInCooldown ==
    /\ anomalies # <<>>
    /\ \A k \in DOMAIN anomalies :
          LET t == TraceIdOf(anomalies[k].reading)
          IN /\ t # ""
             /\ t \in DOMAIN ledger_at_start
             /\ now - ledger_at_start[t] < ALERT_COOLDOWN_SECONDS

C7_CooldownSuppressesCycle ==
    (CycleEnded /\ AllInCooldown) =>
        /\ outcome = "none_new"
        /\ calls = NoCalls
        /\ result.kind = "return" /\ result.sent = FALSE
        /\ _last_alert_ts = ledger_at_start

C7_Witness ==
    /\ CycleEnded
    /\ AllInCooldown
    /\ outcome = "none_new"
    /\ Len(anomalies) = 2

\* C8: a cycle with k >= 1 new anomalies, recipients and a successful send
\* calls send_email_alert exactly once with k in the subject, and ends with
\* a ledger entry for each non-empty trace id of the k anomalies.
C8_SuccessfulCycle ==
    /\ (SentThisCycle /\ pc \in LoopPcs) => calls.send = 1 /\ subject.new_count = Len(new_anomalies)
                           /\ Len(new_anomalies) >= 1
    /\ (CycleEnded /\ SentThisCycle) =>
          /\ outcome = "sent"
          /\ result.sent = TRUE
          /\ \A t \in TraceIds(new_anomalies) \ {""} :
                /\ t \in DOMAIN _last_alert_ts
                /\ \E e \in sent_log : e.cycle = cycle /\ _last_alert_ts[t] >= e.at

C8_Witness ==
    /\ CycleEnded
    /\ SentThisCycle
    /\ Len(new_anomalies) = 2
    /\ Len(anomalies) > Len(new_anomalies) \/ cycle = 1
    /\ {"t1", "t2"} \subseteq DOMAIN _last_alert_ts

\* C9: for a reading whose methane_ppm is a number, the detector returns an
\* anomaly for it if and only if methane_ppm >= threshold; a reading at the
\* threshold is flagged and one just below it is not.
C9_DetectIffAtLeastThreshold ==
    pc = "returned" =>
        /\ \A k \in DOMAIN readings :
              readings[k].methane_ppm.t = "num" =>
                  ((\E j \in DOMAIN anomalies : anomalies[j].reading = readings[k])
                      <=> readings[k].methane_ppm.n >= absolute_threshold)
        /\ \A j \in DOMAIN anomalies :
              \E k \in DOMAIN readings : anomalies[j].reading = readings[k]
        /\ Len(anomalies) <= Len(readings)

C9_Witness ==
    /\ pc = "returned"
    /\ absolute_threshold = 5000
    /\ Len(readings) = 2
    /\ readings[1].methane_ppm = Num(5000)
    /\ readings[2].methane_ppm = Num(4999)
    /\ Len(anomalies) = 1
    /\ anomalies[1].reading = readings[1]

\* C10 as stated: for every threshold, a reading whose methane_ppm is
\* missing or not a number is not flagged.
C10_InvalidNeverFlagged ==
    pc = "returned" =>
        \A k \in DOMAIN readings :
            ~FloatAccepts(readings[k].methane_ppm) =>
                \A j \in DOMAIN anomalies : anomalies[j].reading # readings[k]

\* ------------------------------------------------------------ the notifier
\* the caller gave an empty list, or gave none and ALERT_TO is empty
NoRecipientsGiven == IF to_addrs.given THEN to_addrs.addrs = <<>>
                     ELSE email_ALERT_TO = ""
MailDone == pc \in {"returned", "raised"}
SendGridAttempted == pc = "sendgrid" \/ tried.sendgrid > 0

\* C11: send_email_alert called with an empty recipient list, or with none
\* while ALERT_TO is empty, raises, and has then made no probe and no
\* attempt on any transport.
C11_NoRecipientsRaises ==
    NoRecipientsGiven =>
        /\ pc \in {"call", "raised"}
        /\ tried = NoTries
        /\ delays = <<>>
C11_Witness ==
    /\ ~to_addrs.given
    /\ email_ALERT_TO = ""
    /\ pc = "raised"

\* C12: when both port probes failed no SMTP attempt is made, a configured
\* SendGrid is attempted once, and if its send succeeded send_email_alert
\* returns success.
C12_SendGridAfterFailedProbes ==
    (tried.probes = 2 /\ ~smtp465_ok /\ ~smtp587_ok) =>
        /\ tried.ssl = 0 /\ tried.starttls = 0
        /\ tried.sent = "sendgrid" => pc = "returned" /\ ret = TRUE
        /\ (MailDone /\ SENDGRID_API_KEY /\ SENDGRID_FROM) => tried.sendgrid = 1
C12_Witness ==
    /\ tried.probes = 2 /\ ~smtp465_ok /\ ~smtp587_ok
    /\ tried.sent = "sendgrid"
    /\ pc = "returned"

\* C13 as stated: whenever an SMTP port is reachable, SendGrid is attempted
\* only after MAX_RETRIES failed SMTP attempts, and never after an SMTP
\* success.
C13_SendGridOnlyAfterSmtp ==
    /\ (SendGridAttempted /\ (smtp465_ok \/ smtp587_ok)) =>
           tried.ssl + tried.starttls >= MAX_RETRIES
    /\ tried.sent \in {"ssl", "starttls"} => ~SendGridAttempted

\* C13 amended: with the Gmail credentials configured, SendGrid is attempted
\* only after every reachable SMTP port has had MAX_RETRIES failed attempts,
\* and never after an SMTP success; without the credentials SMTP is skipped
\* and SendGrid is next whatever the probes found.
C13_SendGridOnlyAfterUsableSmtp ==
    /\ (SendGridAttempted /\ has_gmail_creds) =>
           /\ smtp465_ok => tried.ssl = MAX_RETRIES
           /\ smtp587_ok => tried.starttls = MAX_RETRIES
    /\ tried.sent \in {"ssl", "starttls"} => ~SendGridAttempted /\ pc = "returned"
    /\ ~has_gmail_creds => tried.ssl = 0 /\ tried.starttls = 0
C13_Witness ==
    /\ pc = "sendgrid"
    /\ has_gmail_creds
    /\ smtp465_ok /\ smtp587_ok
    /\ tried.ssl = MAX_RETRIES /\ tried.starttls = MAX_RETRIES

\* C14: send_email_alert returns only after some channel's send succeeded
\* and then returns True; when no channel delivered it raises.
C14_ReturnsOnlyOnDelivery ==
    /\ pc = "returned" => ret = TRUE /\ tried.sent # ""
    /\ (MailDone /\ tried.sent = "") => pc = "raised" /\ ret = FALSE
    /\ tried.sent # "" => pc = "returned"
C14_Witness ==
    /\ pc = "returned"
    /\ tried.sent = "starttls"
    /\ tried.ssl = MAX_RETRIES

\* ---------------------------------------------------------------- the loop
\* the loop has been left
LoopEnded == pc \in {"stopped", "exited", "terminated"}

\* C15: the loop is left only through KeyboardInterrupt; an error raised by
\* a step of a cycle ends that cycle at the sleep, and from the sleep the
\* next cycle starts whatever the outcome of the cycle was.
C15_ErrorsContained ==
    /\ LoopEnded => interrupted_at \in LoopPcs
    /\ outcome \in {"raised", "email_error"} =>
          pc = "sleep" \/ (LoopEnded /\ interrupted_at = "sleep")
    /\ (pc = "sleep" /\ cycle < MaxCycles /\ now + CHECK_INTERVAL_SECONDS <= MaxTime)
          => ENABLED Sleep
C15_Witness ==
    /\ cycle = 2
    /\ _client = "None"
    /\ pc = "start"

\* the trace ids of the batch sent by the current cycle that are not marked
UnmarkedSent ==
    UNION {e.traces \ {""} : e \in {x \in sent_log : x.cycle = cycle}}
        \ DOMAIN _last_alert_ts

\* C17 as stated: the loop shuts down only between cycles, after the cycle
\* that had started has run to its end, marking included.
C17_CancelOnlyBetweenCycles ==
    LoopEnded =>
        /\ interrupted_at = "sleep"
        /\ UnmarkedSent = {}

\* C17 amended: KeyboardInterrupt ends the loop at whatever step it has
\* reached, inside a cycle as well as between cycles; a cycle interrupted
\* inside has no outcome, and no step of a cycle runs after the loop has
\* ended.
C17_CancelAnywhere ==
    /\ [](pc \in LoopPcs => ENABLED Cancel)
    /\ [](LoopEnded =>
            /\ interrupted_at \in LoopPcs
            /\ interrupted_at # "sleep" => outcome = "running")
    /\ [][LoopEnded => /\ LoopEnded'
                       /\ UNCHANGED <<_last_alert_ts, sent_log, calls, cycle,
                                      outcome, result>>]_vars
C17_Witness ==
    /\ pc = "terminated"
    /\ interrupted_at = "mark"
    /\ Cardinality(UnmarkedSent) = 1
    /\ Cardinality(DOMAIN _last_alert_ts) = 1

\* C18: a fetch from a store that answers no request yields the empty list:
\* the cycle ends as "No readings found." with no reasoner call, no send
\* and the ledger as it was.
C18_UnreachableStoreNoReadings ==
    ~store_up =>
        /\ pc = "sleep" \/ LoopEnded
        /\ outcome = "no_readings"
        /\ result = Returned(FALSE, "No readings found.")
        /\ calls = NoCalls
        /\ ~SentThisCycle
        /\ _last_alert_ts = ledger_at_start
C18_Witness ==
    /\ ~store_up
    /\ pc = "sleep"
    /\ _last_alert_ts # <<>>

\* the cycle is given recipients, by its argument or by the environment
HasRecipients == IF send_to.given THEN send_to.addrs # <<>> ELSE ALERT_TO # ""
\* some reasoner call of the cycle has failed
ReasonerErrored == \/ pc = "reason_fallback"
                   \/ calls.reasoner = 2
                   \/ report_text = ReasonerFailed
SendStepReached == pc \in {"send", "mark"} \/ (CycleEnded /\ HasRecipients)
AllNewMarked == \A t \in TraceIds(new_anomalies) \ {""} : t \in DOMAIN _last_alert_ts

\* C19 as stated: after any failure of a reasoner call the body carries the
\* failure text, the send is still called, and a successful send is marked.
C19_AnyFailureGivesFailureText ==
    (ReasonerErrored /\ SendStepReached) =>
        /\ body.report = ReasonerFailed
        /\ CycleEnded => /\ calls.send = 1
                         /\ outcome = "sent" => AllNewMarked

\* C19 amended: when the reasoner step ends in failure (an error other than
\* TypeError from the first call, or any error from the second call made
\* after a TypeError) the body carries the failure text, the send is still
\* called once and a successful send is marked; when the second call
\* returns a report the body carries that report.
C19_FinalFailureGivesFailureText ==
    /\ (report_text = ReasonerFailed /\ SendStepReached) =>
          /\ body.report = ReasonerFailed
          /\ CycleEnded => /\ calls.send = 1
                           /\ outcome \in {"sent", "email_error"}
                           /\ outcome = "sent" => AllNewMarked
    /\ (calls.reasoner = 2 /\ report_text = "report" /\ SendStepReached) =>
          body.report = "report"
    /\ calls.reasoner <= 2
C19_Witness ==
    /\ CycleEnded
    /\ outcome = "sent"
    /\ calls.reasoner = 2
    /\ report_text = ReasonerFailed
    /\ body.report = ReasonerFailed
    /\ Cardinality(DOMAIN _last_alert_ts) = 2

\* C16: when the loop ends while it holds a client that has close(), close()
\* is called on it exactly once over the finally block and the exit hook
\* together; the cached client is cleared; the shutdown goes through also
\* when close() raises; the second close_client changes nothing.
C16_ClosedExactlyOnce ==
    /\ [](close_log.calls <= 1)
    /\ [](pc \in {"exited", "terminated"} =>
            /\ _client = "None"
            /\ close_log.held = "closable" => close_log.calls = 1)
    /\ [](pc = "stopped" => ENABLED CloseInFinally)
    /\ [](pc = "exited" => ENABLED CloseAtExit)
    /\ [][pc = "exited" => UNCHANGED <<_client, close_log>>]_vars
C16_Witness ==
    /\ pc = "terminated"
    /\ close_log.held = "closable"
    /\ close_log.raised
    /\ close_log.calls = 1
    /\ cycle = 2

\* C27: with no recipients configured (send_to empty and ALERT_TO, which
\* stands for ALERT_TO or GMAIL_USER, not set) send_email_alert is never
\* called and the ledger never changes; a cycle that reaches the recipients
\* step returns not-sent with the no-recipients text, and the loop goes on
\* to its sleep and the next cycle.
NoRecipientsConfigured == send_to.addrs = <<>> /\ ALERT_TO = ""
C27_NoRecipientsNotSent ==
    NoRecipientsConfigured =>
        /\ calls.send = 0
        /\ pc \notin {"send", "mark"}
        /\ sent_log = {}
        /\ _last_alert_ts = ledger_at_start
        /\ (calls.reasoner >= 1 /\ outcome # "running") =>
              /\ outcome = "no_recipients"
              /\ result.kind = "return"
              /\ result.sent = FALSE
              /\ pc = "sleep" \/ (LoopEnded /\ interrupted_at = "sleep")
        /\ (pc = "sleep" /\ outcome = "no_recipients" /\ cycle < MaxCycles
              /\ now + CHECK_INTERVAL_SECONDS <= MaxTime) => ENABLED Sleep
C27_Witness ==
    /\ NoRecipientsConfigured
    /\ send_to.given
    /\ cycle = 2
    /\ pc = "sleep"
    /\ outcome = "no_recipients"
    /\ calls.reasoner = 1
    /\ result.text = "report\n\nNo recipients configured."

\* C28: within a cycle the steps come in the order fetch, detect, filter,
\* reason, notify, mark: detection has the fetched readings, the filter the
\* detected anomalies; the reasoner is called only once the filter has
\* finished with at least one new anomaly; send_email_alert is called only
\* once the reasoner call has returned or failed; the ledger changes only
\* once send_email_alert has returned.
C28_StepOrder ==
    /\ pc \in {"detect", "filter"} =>
          /\ readings # <<>>
          /\ calls = NoCalls
          /\ _last_alert_ts = ledger_at_start
    /\ pc = "filter" => anomalies # <<>> /\ i \in DOMAIN anomalies
    /\ pc \in {"reason", "reason_fallback"} =>
          /\ new_anomalies # <<>>
          /\ i = 0
          /\ calls.send = 0
          /\ _last_alert_ts = ledger_at_start
    /\ (calls.reasoner >= 1 /\ pc \in LoopPcs) =>
          /\ new_anomalies # <<>>
          /\ Range(ReadingsOf(new_anomalies)) \subseteq
                {anomalies[k].reading : k \in DOMAIN anomalies}
          /\ pc \notin {"start", "detect", "filter"}
    /\ (pc = "send" \/ calls.send >= 1) =>
          /\ calls.reasoner >= 1
          /\ pc \in LoopPcs => report_text \in {"report", ReasonerFailed}
          /\ pc \notin {"reason", "reason_fallback", "recipients"}
    /\ _last_alert_ts # ledger_at_start =>
          /\ calls.send = 1
          /\ SentThisCycle
          /\ pc \in LoopPcs => pc \in {"mark", "sleep"}
C28_Witness ==
    /\ pc = "mark"
    /\ i = 2
    /\ Len(new_anomalies) = 2
    /\ Len(anomalies) = 2
    /\ calls.reasoner = 2
    /\ calls.send = 1
    /\ _last_alert_ts # ledger_at_start
    /\ cycle = 2

\* C29 as stated: in one cycle the reasoner is called at most once.
C29_ReasonerCalledAtMostOnce == calls.reasoner <= 1
\* C29: in one cycle the reasoner is called at most twice; the second call
\* is made only when the first one raised TypeError; a first call that
\* fails otherwise, and a second call that fails, are not retried.
C29_RetriedOnlyAfterTypeError ==
    /\ calls.reasoner <= 2
    /\ Len(calls.errors) <= calls.reasoner
    /\ pc = "reason" => calls.reasoner = 0
    /\ pc = "reason_fallback" => calls.reasoner = 1 /\ calls.errors = <<"TypeError">>
    /\ calls.reasoner = 2 => calls.errors # <<>> /\ calls.errors[1] = "TypeError"
    /\ (calls.errors # <<>> /\ calls.errors[1] # "TypeError") =>
          /\ calls.reasoner = 1
          /\ pc \notin {"reason", "reason_fallback"}
    /\ Len(calls.errors) = 2 => pc \notin {"reason", "reason_fallback"}
C29_Witness ==
    /\ pc = "recipients"
    /\ calls.reasoner = 2
    /\ calls.errors = <<"TypeError", "Exception">>
    /\ report_text = ReasonerFailed
    /\ cycle = 2

\* C30: each SMTP channel makes at most MAX_RETRIES attempts and none after
\* its first success; after failed attempt n of a channel the sender sleeps
\* RETRY_DELAY_SECONDS * 2^(n-1), the last failed attempt included.
FailedSsl == tried.ssl - (IF tried.sent = "ssl" THEN 1 ELSE 0)
FailedStarttls == tried.starttls - (IF tried.sent = "starttls" THEN 1 ELSE 0)
C30_BoundedRetriesWithBackoff ==
    /\ tried.ssl <= MAX_RETRIES
    /\ tried.starttls <= MAX_RETRIES
    /\ pc = "smtp_ssl" => tried.ssl = attempt - 1 /\ tried.starttls = 0
    /\ pc = "smtp_starttls" => tried.starttls = attempt - 1
    /\ tried.sent = "ssl" => pc = "returned" /\ tried.starttls = 0
    /\ tried.sent = "starttls" => pc = "returned"
    /\ (tried.ssl > 0 /\ tried.starttls > 0) => FailedSsl = MAX_RETRIES
    /\ (tried.sendgrid > 0 /\ tried.starttls > 0) => FailedStarttls = MAX_RETRIES
    /\ Len(delays) = FailedSsl + FailedStarttls
    /\ \A n \in 1..FailedSsl : delays[n] = RETRY_DELAY_SECONDS * 2 ^ (n - 1)
    /\ \A n \in 1..FailedStarttls :
          delays[FailedSsl + n] = RETRY_DELAY_SECONDS * 2 ^ (n - 1)
C30_Witness ==
    /\ pc = "returned"
    /\ tried.sent = "starttls"
    /\ tried.ssl = MAX_RETRIES
    /\ tried.starttls = 3
    /\ delays = <<2, 4, 8, 16, 2, 4>>

\* a channel has reported failure: its function returned False
SslReportedFailure == tried.ssl > 0 /\ tried.sent # "ssl" /\ pc # "smtp_ssl"
StarttlsReportedFailure ==
    tried.starttls > 0 /\ tried.sent # "starttls" /\ pc # "smtp_starttls"
SendgridReportedFailure == tried.sendgrid > 0 /\ tried.sent # "sendgrid"
\* C31 as stated: every channel, SendGrid included, has made MAX_RETRIES
\* attempts when it reports failure.
C31_EveryChannelRetries ==
    /\ SslReportedFailure => tried.ssl = MAX_RETRIES
    /\ StarttlsReportedFailure => tried.starttls = MAX_RETRIES
    /\ SendgridReportedFailure => tried.sendgrid = MAX_RETRIES
\* C31: the two SMTP channels report failure only after MAX_RETRIES failed
\* attempts, each followed by its backoff delay; the SendGrid fallback makes
\* one request, with no delay and no retry, and its failure ends the call
\* with the error.
C31_SmtpRetriesSendgridOnce ==
    /\ SslReportedFailure => tried.ssl = MAX_RETRIES
    /\ StarttlsReportedFailure => tried.starttls = MAX_RETRIES
    /\ (SslReportedFailure /\ StarttlsReportedFailure) =>
          delays = [k \in 1..(2 * MAX_RETRIES) |->
                      Backoff(IF k <= MAX_RETRIES THEN k ELSE k - MAX_RETRIES)]
    /\ tried.sendgrid <= 1
    /\ pc = "sendgrid" => tried.sendgrid = 0
    /\ SendgridReportedFailure => pc = "raised" /\ ret = FALSE
    /\ Len(delays) <= tried.ssl + tried.starttls
C31_Witness ==
    /\ pc = "raised"
    /\ tried.ssl = MAX_RETRIES
    /\ tried.starttls = MAX_RETRIES
    /\ tried.sendgrid = 1
    /\ tried.sent = ""
    /\ Len(delays) = 2 * MAX_RETRIES

\* C39: every call of send_email_alert ends, returning or raising, after
\* at most MAX_RETRIES attempts on SMTP-SSL, then at most MAX_RETRIES on
\* STARTTLS, then at most one SendGrid request; STARTTLS is tried only when
\* SSL was skipped or failed MAX_RETRIES times, SendGrid only when each SMTP
\* channel was skipped or failed MAX_RETRIES times.
C39_SendTerminatesInOrder ==
    /\ <>MailDone
    /\ [](/\ tried.ssl <= MAX_RETRIES
          /\ tried.starttls <= MAX_RETRIES
          /\ tried.sendgrid <= 1
          /\ tried.probes <= 2
          /\ (tried.starttls > 0 \/ pc = "smtp_starttls") =>
                /\ tried.sent # "ssl"
                /\ tried.ssl \in {0, MAX_RETRIES}
                /\ tried.ssl = 0 <=> ~smtp465_ok
          /\ (tried.sendgrid > 0 \/ pc = "sendgrid") =>
                /\ tried.sent \notin {"ssl", "starttls"}
                /\ tried.ssl \in {0, MAX_RETRIES}
                /\ tried.starttls \in {0, MAX_RETRIES}
                /\ tried.ssl = 0 <=> (~has_gmail_creds \/ ~smtp465_ok)
                /\ tried.starttls = 0 <=> (~has_gmail_creds \/ ~smtp587_ok)
          /\ pc = "smtp_ssl" => tried.starttls = 0 /\ tried.sendgrid = 0
          /\ pc = "smtp_starttls" => tried.sendgrid = 0
          /\ MailDone => ~ENABLED NextEmail)
C39_Witness ==
    /\ pc = "returned"
    /\ tried.sent = "sendgrid"
    /\ tried.ssl = MAX_RETRIES
    /\ tried.starttls = MAX_RETRIES
    /\ tried.sendgrid = 1
    /\ tried.probes = 2

\* C33: a cycle that has ended, however it ended, is at the sleep and
\* nowhere else; the next cycle starts only from there, by one sleep that
\* advances the clock by CHECK_INTERVAL_SECONDS, whatever time the cycle
\* took; the interval never changes.
C33_FixedSleepBetweenCycles ==
    /\ []((outcome # "running" /\ pc \in LoopPcs) => pc = "sleep")
    /\ [](pc = "sleep" => outcome # "running")
    /\ []((pc = "sleep" /\ cycle < MaxCycles
             /\ now + CHECK_INTERVAL_SECONDS <= MaxTime) => ENABLED Sleep)
    /\ [][/\ CHECK_INTERVAL_SECONDS' = CHECK_INTERVAL_SECONDS
          /\ cycle' \in {cycle, cycle + 1}
          /\ cycle' = cycle + 1 <=> (pc = "sleep" /\ pc' = "start")
          /\ pc' = "start" => (pc = "sleep" /\ now' = now + CHECK_INTERVAL_SECONDS)
          /\ (pc = "sleep" /\ pc' # "start") => now' = now]_vars
C33_Witness ==
    /\ cycle = 2
    /\ pc = "start"
    /\ retry_due # {}
    /\ now = CHECK_INTERVAL_SECONDS + 1

\* C34: no step of the loop removes a ledger entry, and no step lowers the
\* time stored for a trace id.
C34_LedgerOnlyGrows ==
    [][\A t \in DOMAIN _last_alert_ts :
          /\ t \in DOMAIN _last_alert_ts'
          /\ _last_alert_ts'[t] >= _last_alert_ts[t]]_vars
C34_Witness ==
    /\ cycle = 2
    /\ pc = "sleep"
    /\ Cardinality(DOMAIN _last_alert_ts) = 2
    /\ \E t \in DOMAIN ledger_at_start :
          /\ _last_alert_ts[t] > ledger_at_start[t]
          /\ \E u \in DOMAIN ledger_at_start :
                u # t /\ _last_alert_ts[u] = ledger_at_start[u]

\* C35: _should_alert_for_trace leaves the ledger as it was, and
\* _mark_alert_sent(t1) leaves every entry other than t1's as it was, so that
\* every t2 different from t1 is as eligible after t1 is marked as before.
C35_MarkTouchesOnlyItsEntry ==
    [][/\ pc' = "returned" => _last_alert_ts' = _last_alert_ts
       /\ pc' = "marked" =>
             \A t2 \in TraceIdArgs \ {arg_trace_id} :
                /\ t2 \in DOMAIN _last_alert_ts' <=> t2 \in DOMAIN _last_alert_ts
                /\ t2 \in DOMAIN _last_alert_ts =>
                      _last_alert_ts'[t2] = _last_alert_ts[t2]
                /\ _should_alert_for_trace(_last_alert_ts', ALERT_COOLDOWN_SECONDS,
                                           now', t2)
                   = _should_alert_for_trace(_last_alert_ts, ALERT_COOLDOWN_SECONDS,
                                             now, t2)]_vars

\* t1 was eligible and has been marked while t2 is still cooling down
C35_Witness ==
    /\ pc = "marked"
    /\ arg_trace_id = "t1"
    /\ ret = TRUE
    /\ _last_alert_ts["t1"] = now
    /\ "t2" \in DOMAIN _last_alert_ts
    /\ _last_alert_ts["t2"] < now
    /\ ~_should_alert_for_trace(_last_alert_ts, ALERT_COOLDOWN_SECONDS, now, "t2")

\* the non-empty trace ids of the cycle's batch whose ledger entry was
\* written since the cycle started
MarkedThisCycle ==
    {t \in TraceIds(new_anomalies) \ {""} :
        /\ t \in DOMAIN _last_alert_ts
        /\ t \in DOMAIN ledger_at_start =>
              _last_alert_ts[t] > ledger_at_start[t]}

C37_BatchTraceIdsDistinct ==
    /\ \A j, k \in DOMAIN new_anomalies :
          (j # k /\ new_anomalies[j][1] # "") =>
              new_anomalies[j][1] # new_anomalies[k][1]
    /\ subject # NoSubject =>
          subject.new_count = Cardinality(Range(new_anomalies))

\* the stored readings at or above the threshold that carry a trace id
AlertableReadings ==
    {r \in StoredReadings :
        /\ ~NoTraceId(r)
        /\ AtLeast(_safe_float(r.methane_ppm, 0), ABSOLUTE_EMERGENCY_PPM)}
\* the cycle has ended with reading r in the alert it sent and r's trace id
\* marked at the time of the cycle
SentAndMarked(r) ==
    /\ pc = "sleep"
    /\ outcome = "sent"
    /\ \E e \in sent_log : TraceIdOf(r) \in e.traces
    /\ \E k \in DOMAIN body.raw : body.raw[k] = r
    /\ TraceIdOf(r) \in DOMAIN _last_alert_ts
    /\ _last_alert_ts[TraceIdOf(r)] = now

\* C38: when recipients are configured, send attempts do not fail for ever,
\* and a reading at or above the threshold with a trace id is fetched in
\* every cycle, some cycle sends an alert that contains the reading and
\* marks its trace id in the ledger.
C38_EventuallySentAndMarked ==
    \A r \in AlertableReadings :
        (/\ ~NoRecipientsConfigured
         /\ [](pc = "sleep" => r \in Range(readings)))
            => <>SentAndMarked(r)

\* the reading is sent and marked by a cycle that follows a failed send of it
C38_Witness ==
    \E r \in AlertableReadings :
        /\ SentAndMarked(r)
        /\ r \in retry_due
        /\ TraceIdOf(r) \notin DOMAIN ledger_at_start

\* ------------------------------------------------------------ the reasoner
\* C20: call_chatgpt_reasoner returns only a parsed payload that is an
\* object with the keys decision and confidence, and raises for every
\* other response text.
C20_ReturnsOnlyValidObject ==
    (pc = "returned" /\ ret.kind = "returned") =>
        /\ ret.result.type = "dict"
        /\ {"decision", "confidence"} \subseteq ret.result.has

\* C21: every result returned by call_chatgpt_reasoner has its decision
\* among escalate, monitor, ignore and its confidence within [0,1].
C21_ReturnedValuesInSchema ==
    (pc = "returned" /\ ret.kind = "returned") =>
        /\ ret.result.values.decision = "in schema"
        /\ ret.result.values.confidence = "in schema"

\* ------------------------------------------------ the store and its API
MissingFields(request) == {f \in Range(RequiredFields) : f \notin DOMAIN request}
C23_ReportedTraceIdIsStored ==
    \A k \in DOMAIN objects :
        ingest_log[k].via = "api" =>
            /\ ingest_log[k].reported = objects[k].trace_id
            /\ ingest_log[k].supplied # None =>
                    objects[k].trace_id = ingest_log[k].supplied

\* C24: two distinct readings inserted without an explicit trace id have
\* different trace ids, also when they are inserted within one millisecond.
C24_GeneratedTraceIdsDiffer ==
    \A j, k \in DOMAIN objects :
        (j # k /\ ingest_log[j].supplied = None /\ ingest_log[k].supplied = None) =>
            objects[j].trace_id # objects[k].trace_id

\* C25: insert_sensor_event called without a trace id stores the reading
\* under a non-empty generated trace id and returns that same id; a fetch
\* returns stored objects as they are, so the reading keeps that id.
C25_GeneratedTraceIdRoundTrip ==
    /\ Len(ingest_log) = Len(objects)
    /\ \A k \in DOMAIN objects :
          /\ objects[k].trace_id.t = "str"
          /\ objects[k].trace_id.s # ""
          /\ ingest_log[k].returned = objects[k].trace_id
    /\ ret.op = "insert" /\ ret.kind = "returned" =>
          /\ objects # <<>>
          /\ ret.trace_id = objects[Len(objects)].trace_id
    /\ ret.op = "fetch" =>
          \A r \in Range(ret.readings) :
              \E k \in DOMAIN objects :
                  /\ r = objects[k]
                  /\ r.trace_id = ingest_log[k].returned
C25_Witness ==
    /\ ret.op = "fetch"
    /\ Len(ret.readings) = 2
    /\ ingest_log[1].via = "insert"
    /\ ingest_log[2].via = "insert"
    /\ ret.readings[1].trace_id = MsTraceId(1)
    /\ ret.readings[2].trace_id = MsTraceId(0)

\* C26: get_recent_readings(limit) returns at most limit readings, and they
\* are the most recently stored ones, newest first.
C26_NewestFirstWithinLimit ==
    (ret.op = "fetch" /\ ret.up) =>
        LET n == IF ret.limit < ret.held THEN ret.limit ELSE ret.held
        IN /\ Len(ret.readings) = n
           /\ \A k \in 1..n : ret.readings[k] = objects[ret.held + 1 - k]

\* the end of the first object of a text: the first closing brace after the
\* first opening brace (0 if there is none)
FirstObjectEnd(text) ==
    LET start == Find(text, "{")
        ends == {k \in DOMAIN text : k > start /\ text[k] = "}"}
    IN IF start = -1 \/ ends = {} THEN 0
       ELSE CHOOSE k \in ends : \A j \in ends : k <= j
\* prose, one JSON object with decision and confidence, and more text of
\* prose, braces and members
ProseObjectProse(text) ==
    LET start == Find(text, "{")
        end == FirstObjectEnd(text)
    IN /\ end # 0
       /\ \A k \in 1..(start - 1) : text[k] = "prose"
       /\ \A k \in (start + 1)..(end - 1) : text[k] \in Members
       /\ \E k \in (start + 1)..(end - 1) : text[k] \in DecisionMembers
       /\ \E k \in (start + 1)..(end - 1) : text[k] \in ConfidenceMembers
       /\ \A k \in (end + 1)..Len(text) : text[k] \in {"prose", "{", "}"} \cup Members
\* C32: for a response text made of prose, one valid JSON object with
\* decision and confidence, and more prose that may contain braces,
\* call_chatgpt_reasoner returns that object, parsed from the first opening
\* brace to its balancing closing brace.
C32_FirstBalancedObjectReturned ==
    (pc = "returned" /\ api_ok /\ ProseObjectProse(raw_text)) =>
        /\ ret.kind = "returned"
        /\ ret.result = json_loads(SubSeq(raw_text, Find(raw_text, "{"),
                                          FirstObjectEnd(raw_text)))

\* C40: the launched script polls: in every iteration of its loop it runs
\* the crew if and only if the fetched latest timestamp is non-null and
\* differs from LAST_TIMESTAMP, it sets LAST_TIMESTAMP to the fetched one
\* after the run, and a failed fetch changes nothing.  That needs the
\* launched script to reach the loop of its main block.
C40_LaunchedScriptPolls ==
    auto_pc # "not started" => auto_pc = "main"

====
